---- MODULE Spec2Model ----
(***************************************************************************)
(* Planner of the workload-assessment app: the ranking, bucketing and      *)
(* time-boxing pass of PlannerScreen (app/(tabs)/index/index.tsx), its     *)
(* loads and hero stats, the bucket pass of PlanSectionScreen              *)
(* (app/_layout.tsx), the filter of TasksFilterScreen, and the accounts,   *)
(* session and task operations of lib/database.                            *)
(*                                                                         *)
(* Text is a sequence of one-character strings, so that toLowerCase,       *)
(* split(/\W+/) and includes are computed, not assumed.  A calendar day is *)
(* a day number; a local midnight is a number of hours since day 0.        *)
(* Scores are kept times ten: the similarity boost is a sum of 0.4 and 0.8 *)
(* terms, so ten times a score is an integer.  For the titles used here    *)
(* (at most three words) the double-precision sums compare as the scaled   *)
(* integers do.                                                            *)
(***************************************************************************)
EXTENDS Integers, Sequences, FiniteSets, TLC

VARIABLES
    rows,       \* the rows getTasks() returns to a screen that loads (one
                \* user's store: lib/database and app/database return the same)
    today,      \* the current calendar day (day number)
    tasks,      \* PlannerScreen: useState<Task[]> tasks
    plan,       \* PlannerScreen: the value of the agentPlan memo
    prev,       \* the planner pass before the current one: its inputs and result
    secTasks,   \* PlanSectionScreen: useState<Task[]> tasks
    secPlan,    \* PlanSectionScreen: the value of the agentPlan memo
    error,      \* PlannerScreen: useState<string | null> error
    refreshing, \* PlannerScreen: useState(false) refreshing
    loads,      \* PlannerScreen: the calls of loadTasks so far, in the order
                \* they started, each at its position in the function
    db,         \* lib/database: the users, sessions and tasks tables
    signedOut,  \* signOutUser has run and no sign-in or sign-up has succeeded since
    lastOp      \* the last lib/database call: its name, the session it found,
                \* the user it acted for, the owners of the task rows it read
                \* or changed, and whether it returned a result

vars == <<rows, today, tasks, plan, prev, secTasks, secPlan, error, refreshing,
          loads, db, signedOut, lastOp>>

----------------------------------------------------------------------------
(* Bounds of the model                                                     *)

\* Number of catalogue tasks the store rows are drawn from.
PoolSize == 12

\* The store holds any of the first SmallPool of them, or all of them but at
\* most DropMax.
SmallPool == 7
DropMax == 2

----------------------------------------------------------------------------
(* Text                                                                    *)

UpperChars == <<"A", "B", "C", "D", "E", "F", "G", "H", "I", "J", "K", "L", "M",
                "N", "O", "P", "Q", "R", "S", "T", "U", "V", "W", "X", "Y", "Z">>
LowerChars == <<"a", "b", "c", "d", "e", "f", "g", "h", "i", "j", "k", "l", "m",
                "n", "o", "p", "q", "r", "s", "t", "u", "v", "w", "x", "y", "z">>
DigitChars == {"0", "1", "2", "3", "4", "5", "6", "7", "8", "9"}

Range(s) == {s[i] : i \in DOMAIN s}

\* String.prototype.toLowerCase, character by character.
LowerOf == [i \in DOMAIN UpperChars |-> LowerChars[i]]
UpperIndex == [c \in Range(UpperChars) |-> CHOOSE i \in DOMAIN UpperChars : UpperChars[i] = c]

lowerChar(c) == IF c \in DOMAIN UpperIndex THEN LowerOf[UpperIndex[c]] ELSE c

toLowerCase(s) == [i \in DOMAIN s |-> lowerChar(s[i])]

\* The characters the regular expression class \w matches (\W is the rest).
WordChars == Range(UpperChars) \cup Range(LowerChars) \cup DigitChars \cup {"_"}

isWordChar(c) == c \in WordChars

\* s.split(/\W+/).filter(Boolean): the maximal runs of word characters, in
\* the order of their first characters.
splitWords(s) ==
    LET starts == {i \in DOMAIN s :
                      isWordChar(s[i]) /\ (i = 1 \/ ~isWordChar(s[i - 1]))}
        endOf(i) == CHOOSE j \in i..Len(s) :
                       /\ \A k \in i..j : isWordChar(s[k])
                       /\ (j = Len(s) \/ ~isWordChar(s[j + 1]))
        nth(k) == CHOOSE i \in starts :
                     Cardinality({j \in starts : j < i}) = k - 1
    IN [k \in 1..Cardinality(starts) |-> SubSeq(s, nth(k), endOf(nth(k)))]

\* String.prototype.includes: k occurs in s as a contiguous substring.
includes(s, k) ==
    \E i \in 1..(Len(s) - Len(k) + 1) : SubSeq(s, i, i + Len(k) - 1) = k

----------------------------------------------------------------------------
(* Dates                                                                   *)

\* Hours in one day: the divisor 1000 * 60 * 60 * 24 of diffInDays, in hours.
HoursPerDay == 24

\* First day on which local midnight falls one hour early (clocks moved
\* forward by daylight saving), so that differences of midnights are not all
\* whole days and Math.round has something to round.
DstStart == 12

\* A nullable value: null, or a number.
Null == [isNull |-> TRUE, v |-> 0]
Some(n) == [isNull |-> FALSE, v |-> n]

\* The stored due_date text: absent, the empty string, text that is no date,
\* or YYYY-MM-DD naming a calendar day.
NoDate == [kind |-> "null", day |-> 0]
EmptyDate == [kind |-> "empty", day |-> 0]
BadDate == [kind |-> "bad", day |-> 0]
Ymd(d) == [kind |-> "ymd", day |-> d]

\* Local midnight of a calendar day, in hours (Date.getTime() / 3600000).
midnightHours(d) == HoursPerDay * d - (IF d >= DstStart THEN 1 ELSE 0)

\* parseDueDate: null for a falsy string or an Invalid Date, else the Date.
parseDueDate(due) ==
    IF due.kind \in {"null", "empty"} THEN Null
    ELSE IF due.kind = "bad" THEN Null
    ELSE Some(midnightHours(due.day))

\* Math.round(a / b) for b > 0: floor(a / b + 1/2).
roundDiv(a, b) == (2 * a + b) \div (2 * b)

\* diffInDays: whole days from today's midnight to the date, or null.  The
\* code reads the clock (new Date()) in each call; now is that reading, the
\* same for every call of one synchronous pass.
diffInDays(date, now) ==
    IF date.isNull THEN Null
    ELSE Some(roundDiv(date.v - midnightHours(now), HoursPerDay))

----------------------------------------------------------------------------
(* Effort                                                                  *)

\* The keywords table of estimateMinutes, in insertion order.
keywords == <<
    [k |-> <<"e", "s", "s", "a", "y">>, bonus |-> 30],
    [k |-> <<"p", "r", "o", "j", "e", "c", "t">>, bonus |-> 40],
    [k |-> <<"r", "e", "s", "e", "a", "r", "c", "h">>, bonus |-> 25],
    [k |-> <<"s", "t", "u", "d", "y">>, bonus |-> 15],
    [k |-> <<"q", "u", "i", "z">>, bonus |-> 10],
    [k |-> <<"e", "x", "a", "m">>, bonus |-> 40],
    [k |-> <<"l", "a", "b">>, bonus |-> 25],
    [k |-> <<"r", "e", "p", "o", "r", "t">>, bonus |-> 25] >>

RECURSIVE bonusFrom(_, _, _)
bonusFrom(title, i, bonus) ==
    IF i > Len(keywords) THEN bonus
    ELSE bonusFrom(title, i + 1,
                   IF includes(title, keywords[i].k)
                   THEN bonus + keywords[i].bonus ELSE bonus)

\* estimateMinutes matching the keywords against the title as written.
estimateMinutesCaseSensitive(task) ==
    LET base == IF task.difficulty = "hard" THEN 90
                ELSE IF task.difficulty = "medium" THEN 45 ELSE 20
    IN base + bonusFrom(task.title, 1, 0)

estimateMinutes(task) ==
    LET base == IF task.difficulty = "hard" THEN 90
                ELSE IF task.difficulty = "medium" THEN 45 ELSE 20
        title == toLowerCase(task.title)
    IN base + bonusFrom(title, 1, 0)

computeEnergy(task) ==
    IF task.difficulty = "hard" THEN "deep"
    ELSE IF task.difficulty = "medium" THEN "deep"
    ELSE "shallow"

----------------------------------------------------------------------------
(* Scoring and ranking (PlannerScreen.agentPlan)                           *)

Min(a, b) == IF a <= b THEN a ELSE b

\* Mutant of openTasks: the filter forgotten.
openTasksUnfiltered(ts) == ts

\* openTasks: tasks.filter((t) => !t.completed).
openTasks(ts) == SelectSeq(ts, LAMBDA t : t.completed = 0)

\* The words of a title as freq and similarityBoost see them.
titleWords(task) == splitWords(toLowerCase(task.title))

\* freq.get(w) ?? 0
freqGet(freq, w) == IF w \in DOMAIN freq THEN freq[w] ELSE 0

\* freq.set(w, (freq.get(w) ?? 0) + 1) for each word of one title in turn.
RECURSIVE countWords(_, _, _)
countWords(words, i, freq) ==
    IF i > Len(words) THEN freq
    ELSE LET w == words[i]
         IN countWords(words, i + 1,
                       [x \in DOMAIN freq \cup {w} |->
                           IF x = w THEN freqGet(freq, w) + 1 ELSE freq[x]])

\* freq: the Map from each word of an open task's title to its number of
\* occurrences over all open tasks' titles, built task by task.
RECURSIVE freqFrom(_, _, _)
freqFrom(open, i, freq) ==
    IF i > Len(open) THEN freq
    ELSE LET next == countWords(titleWords(open[i]), 1, freq)
         IN IF next = freq THEN freqFrom(open, i + 1, freq)
            ELSE freqFrom(open, i + 1, next)

\* freqOf counting on from the frequency map of the plan on display.
freqOfKept(open) == freqFrom(open, 1, plan.freq)

freqOf(open) == freqFrom(open, 1, << >>)

\* urgencyOf with the tier of a task due today below the tier of one due
\* tomorrow.
urgencyOfDip(daysUntil) ==
    IF daysUntil.isNull THEN 1
    ELSE IF daysUntil.v < 0 THEN 9
    ELSE IF daysUntil.v = 0 THEN 6
    ELSE IF daysUntil.v <= 1 THEN 7
    ELSE IF daysUntil.v <= 3 THEN 6
    ELSE IF daysUntil.v <= 7 THEN 4
    ELSE IF daysUntil.v <= 14 THEN 3
    ELSE 1

\* urgencyOf with the 2-to-3 tier ending one day early.
urgencyOfShort(daysUntil) ==
    IF daysUntil.isNull THEN 1
    ELSE IF daysUntil.v < 0 THEN 9
    ELSE IF daysUntil.v = 0 THEN 8
    ELSE IF daysUntil.v <= 1 THEN 7
    ELSE IF daysUntil.v < 3 THEN 6
    ELSE IF daysUntil.v <= 7 THEN 4
    ELSE IF daysUntil.v <= 14 THEN 3
    ELSE 1

\* The urgency IIFE of the ranked map callback.
urgencyOf(daysUntil) ==
    IF daysUntil.isNull THEN 1
    ELSE IF daysUntil.v < 0 THEN 9
    ELSE IF daysUntil.v = 0 THEN 8
    ELSE IF daysUntil.v <= 1 THEN 7
    ELSE IF daysUntil.v <= 3 THEN 6
    ELSE IF daysUntil.v <= 7 THEN 4
    ELSE IF daysUntil.v <= 14 THEN 3
    ELSE 1

effortOf(task) ==
    IF task.difficulty = "hard" THEN 3
    ELSE IF task.difficulty = "medium" THEN 2 ELSE 1

\* boostFrom without the cap of two on f - 1.
RECURSIVE boostFromUncapped(_, _, _, _)
boostFromUncapped(words, i, freq, boost) ==
    IF i > Len(words) THEN boost
    ELSE LET f == freqGet(freq, words[i])
         IN boostFromUncapped(words, i + 1, freq,
                              IF f > 1 THEN boost + (f - 1) * 4 ELSE boost)

\* similarityBoost, times ten: Math.min(f - 1, 2) * 0.4 for each word
\* occurrence of the title whose frequency f exceeds 1.
RECURSIVE boostFrom(_, _, _, _)
boostFrom(words, i, freq, boost) ==
    IF i > Len(words) THEN boost
    ELSE LET f == freqGet(freq, words[i])
         IN boostFrom(words, i + 1, freq,
                      IF f > 1 THEN boost + Min(f - 1, 2) * 4 ELSE boost)

similarityBoost(task, freq) == boostFrom(titleWords(task), 1, freq, 0)

\* reasonParts, before the join: the due-date clause (if any), then the
\* effort clause.
dueClause(daysUntil) ==
    IF daysUntil.isNull THEN << [text |-> "No due date", n |-> 0] >>
    ELSE IF daysUntil.v < 0
         THEN << [text |-> "Overdue by Nd", n |-> 0 - daysUntil.v] >>
    ELSE IF daysUntil.v = 0 THEN << [text |-> "Due today", n |-> 0] >>
    ELSE IF daysUntil.v = 1 THEN << [text |-> "Due tomorrow", n |-> 0] >>
    ELSE IF daysUntil.v <= 7
         THEN << [text |-> "Due in Nd", n |-> daysUntil.v] >>
    ELSE << >>

effortClause(task) ==
    IF task.difficulty = "hard" THEN << [text |-> "High effort", n |-> 0] >>
    ELSE IF task.difficulty = "medium"
         THEN << [text |-> "Medium effort", n |-> 0] >>
    ELSE << [text |-> "Quick win", n |-> 0] >>

\* The map callback of ranked: one PlannedTask per open task.
plannedTask(task, freq, now) ==
    LET dueDate == parseDueDate(task.due_date)
        daysUntil == diffInDays(dueDate, now)
        estMinutes == estimateMinutes(task)
        energy == computeEnergy(task)
        urgency == urgencyOf(daysUntil)
        effort == effortOf(task)
        score == 10 * (urgency + effort) + similarityBoost(task, freq)
    IN [id |-> task.id, title |-> task.title, difficulty |-> task.difficulty,
        due_date |-> task.due_date, completed |-> task.completed,
        dueDate |-> dueDate, daysUntil |-> daysUntil, score |-> score,
        reason |-> dueClause(daysUntil) \o effortClause(task),
        estMinutes |-> estMinutes, energy |-> energy]

\* The comparator of ranked's sort: (a, b) => b.score - a.score.
compareScore(a, b) == b.score - a.score

\* Mutant of insertSorted: an unstable sort, equal scores ending reversed.
RECURSIVE insertSortedUnstable(_, _, _)
insertSortedUnstable(sorted, t, i) ==
    IF i > Len(sorted) THEN Append(sorted, t)
    ELSE IF compareScore(sorted[i], t) >= 0
         THEN SubSeq(sorted, 1, i - 1) \o <<t>> \o SubSeq(sorted, i, Len(sorted))
         ELSE insertSortedUnstable(sorted, t, i + 1)

\* Array.prototype.sort with that comparator: a stable sort, so an element
\* goes after every element already placed that does not compare greater.
RECURSIVE insertSorted(_, _, _)
insertSorted(sorted, t, i) ==
    IF i > Len(sorted) THEN Append(sorted, t)
    ELSE IF compareScore(sorted[i], t) > 0
         THEN SubSeq(sorted, 1, i - 1) \o <<t>> \o SubSeq(sorted, i, Len(sorted))
         ELSE insertSorted(sorted, t, i + 1)

RECURSIVE sortFrom(_, _, _)
sortFrom(seq, i, sorted) ==
    IF i > Len(seq) THEN sorted
    ELSE sortFrom(seq, i + 1, insertSorted(sorted, seq[i], 1))

sortByScore(seq) == sortFrom(seq, 1, <<>>)

rankedOf(open, freq, now) ==
    sortByScore([i \in DOMAIN open |-> plannedTask(open[i], freq, now)])

----------------------------------------------------------------------------
(* Buckets (take, shared by both screens)                                  *)

CriticalLimit == 3
DeepLimit == 2
QuickLimit == 3
CatchUpLimit == 2

\* Mutant of newUsed: the set kept from the pass before instead of a new one.
newUsedKept == plan.used

\* Mutant of limitReached: the limit tested one too late.
limitReachedLate(picked, limit) == Len(picked) > limit

\* Mutant of isUsed: the used set never consulted.
isUsedIgnored(used, t) == FALSE

\* const used = new Set<number>()
newUsed == {}

\* The loop guards of take.
limitReached(picked, limit) == Len(picked) >= limit
isUsed(used, t) == t.id \in used

\* Mutant of isOverdue: a null offset counted as overdue.
isOverdueNullAsPast(t) == t.daysUntil.isNull \/ t.daysUntil.v < 0

\* Mutant of isEasy: medium tasks pass the quick-wins filter too.
isEasyOrMedium(t) == t.difficulty # "hard"

\* The four filters handed to take.
anyTask(t) == TRUE
notEasy(t) == t.difficulty # "easy"
isEasy(t) == t.difficulty = "easy"
isOverdue(t) == ~t.daysUntil.isNull /\ t.daysUntil.v < 0

\* take(limit, filter): one pass over ranked from position i on; filter is
\* the predicate as a function on the ranked tasks.  The result carries the
\* used set along, as the closure does.
RECURSIVE takeFrom(_, _, _, _, _, _)
takeFrom(ranked, i, limit, filter, picked, used) ==
    IF i > Len(ranked) THEN [picked |-> picked, used |-> used]
    ELSE IF limitReached(picked, limit) THEN [picked |-> picked, used |-> used]
    ELSE IF isUsed(used, ranked[i])
         THEN takeFrom(ranked, i + 1, limit, filter, picked, used)
    ELSE IF ~filter[ranked[i]]
         THEN takeFrom(ranked, i + 1, limit, filter, picked, used)
    ELSE takeFrom(ranked, i + 1, limit, filter,
                  Append(picked, ranked[i]), used \cup {ranked[i].id})

\* take with a used set of its own in each call.
takeOwnUsed(ranked, limit, filter, used) ==
    takeFrom(ranked, 1, limit, filter, <<>>, {})

take(ranked, limit, filter, used) == takeFrom(ranked, 1, limit, filter, <<>>, used)

\* Mutant of bucketsOf: the catch-up pass run before the quick-wins pass.
bucketsOfCatchUpEarly(ranked) ==
    LET R == Range(ranked)
        c == take(ranked, CriticalLimit, [t \in R |-> anyTask(t)], newUsed)
        d == take(ranked, DeepLimit, [t \in R |-> notEasy(t)], c.used)
        u == take(ranked, CatchUpLimit, [t \in R |-> isOverdue(t)], d.used)
        q == take(ranked, QuickLimit, [t \in R |-> isEasy(t)], u.used)
    IN [critical |-> c.picked, deepWork |-> d.picked,
        quickWins |-> q.picked, catchUp |-> u.picked, used |-> q.used]

\* Mutant of bucketsOf: the critical pass run last instead of first.
bucketsOfCriticalLast(ranked) ==
    LET R == Range(ranked)
        d == take(ranked, DeepLimit, [t \in R |-> notEasy(t)], newUsed)
        q == take(ranked, QuickLimit, [t \in R |-> isEasy(t)], d.used)
        u == take(ranked, CatchUpLimit, [t \in R |-> isOverdue(t)], q.used)
        c == take(ranked, CriticalLimit, [t \in R |-> anyTask(t)], u.used)
    IN [critical |-> c.picked, deepWork |-> d.picked,
        quickWins |-> q.picked, catchUp |-> u.picked, used |-> c.used]

\* The four calls of take in their order, each starting from the used set
\* the one before left.
bucketsOf(ranked) ==
    LET R == Range(ranked)
        c == take(ranked, CriticalLimit, [t \in R |-> anyTask(t)], newUsed)
        d == take(ranked, DeepLimit, [t \in R |-> notEasy(t)], c.used)
        q == take(ranked, QuickLimit, [t \in R |-> isEasy(t)], d.used)
        u == take(ranked, CatchUpLimit, [t \in R |-> isOverdue(t)], q.used)
    IN [critical |-> c.picked, deepWork |-> d.picked,
        quickWins |-> q.picked, catchUp |-> u.picked, used |-> u.used]

----------------------------------------------------------------------------
(* Schedule (PlannerScreen.agentPlan)                                      *)

DailyBudget == 180
MaxSlots == 6
SlotCap == 90
TopCount == 5

\* Mutant of slotMinutes: the cap forgotten.
slotMinutesUncapped(t) == t.estMinutes

\* Mutant of scheduleFull: the count tested one too late.
scheduleFullLate(schedule) == Len(schedule) > MaxSlots

\* Mutant of overBudget: the budget never tested.
overBudgetIgnored(slot, budget, schedule) == FALSE

\* Mutant of overBudget: a task is admitted up to one slot over the budget.
overBudgetSlack(slot, budget, schedule) ==
    slot > budget + SlotCap /\ Len(schedule) > 0

\* Mutant of overBudget: a task that uses up the budget exactly is refused.
overBudgetStrict(slot, budget, schedule) ==
    slot >= budget /\ Len(schedule) > 0

\* const slot = Math.min(t.estMinutes, 90)
slotMinutes(t) == Min(t.estMinutes, SlotCap)

\* The two break conditions at the head of the loop body.
scheduleFull(schedule) == Len(schedule) >= MaxSlots
overBudget(slot, budget, schedule) == slot > budget /\ Len(schedule) > 0

\* Mutant of scheduleFrom: a task that does not fit is skipped (continue)
\* instead of ending the loop (break).
RECURSIVE scheduleFromSkipping(_, _, _, _)
scheduleFromSkipping(ranked, i, schedule, budget) ==
    IF i > Len(ranked) THEN [schedule |-> schedule, budget |-> budget]
    ELSE IF scheduleFull(schedule) THEN [schedule |-> schedule, budget |-> budget]
    ELSE LET t == ranked[i]
             slot == slotMinutes(t)
         IN IF overBudget(slot, budget, schedule)
            THEN scheduleFromSkipping(ranked, i + 1, schedule, budget)
            ELSE LET next == Append(schedule,
                                    [title |-> t.title, minutes |-> slot,
                                     id |-> t.id, energy |-> t.energy])
                     left == budget - slot
                 IN IF left <= 0 THEN [schedule |-> next, budget |-> left]
                    ELSE scheduleFromSkipping(ranked, i + 1, next, left)

\* The for loop over ranked from position i on: the schedule and the budget
\* it ends with.
RECURSIVE scheduleFrom(_, _, _, _)
scheduleFrom(ranked, i, schedule, budget) ==
    IF i > Len(ranked) THEN [schedule |-> schedule, budget |-> budget]
    ELSE IF scheduleFull(schedule) THEN [schedule |-> schedule, budget |-> budget]
    ELSE LET t == ranked[i]
             slot == slotMinutes(t)
         IN IF overBudget(slot, budget, schedule)
            THEN [schedule |-> schedule, budget |-> budget]
            ELSE LET next == Append(schedule,
                                    [title |-> t.title, minutes |-> slot,
                                     id |-> t.id, energy |-> t.energy])
                     left == budget - slot
                 IN IF left <= 0 THEN [schedule |-> next, budget |-> left]
                    ELSE scheduleFrom(ranked, i + 1, next, left)

\* schedule.reduce((sum, s) => sum + s.minutes, 0)
RECURSIVE sumMinutes(_, _)
sumMinutes(schedule, i) ==
    IF i > Len(schedule) THEN 0
    ELSE schedule[i].minutes + sumMinutes(schedule, i + 1)

\* The summary sentences, before the join.
summaryParts(b) ==
    (IF b.critical # <<>>
     THEN << [text |-> "Start with", titles |-> <<b.critical[1].title>>,
              reason |-> b.critical[1].reason] >>
     ELSE << >>)
    \o (IF b.deepWork # <<>>
        THEN << [text |-> "Protect one focus block for",
                 titles |-> <<b.deepWork[1].title>>, reason |-> << >>] >>
        ELSE << >>)
    \o (IF b.quickWins # <<>>
        THEN << [text |-> "Clear quick wins:",
                 titles |-> [i \in DOMAIN b.quickWins |-> b.quickWins[i].title],
                 reason |-> << >>] >>
        ELSE << >>)

\* sectionsOf without the filter on empty buckets.
sectionsOfUnfiltered(b) ==
    << [title |-> "Critical path", hint |-> "Highest weighted tasks",
        tasks |-> b.critical],
       [title |-> "Deep focus block", hint |-> "60-90 minutes",
        tasks |-> b.deepWork],
       [title |-> "Quick wins", hint |-> "Momentum boosters",
        tasks |-> b.quickWins],
       [title |-> "Catch up", hint |-> "Overdue or near-miss",
        tasks |-> b.catchUp] >>

\* The sections array: the four buckets in order, the empty ones filtered
\* out (the dash of the second hint is written in ASCII).
sectionsOf(b) ==
    SelectSeq(<< [title |-> "Critical path", hint |-> "Highest weighted tasks",
                  tasks |-> b.critical],
                 [title |-> "Deep focus block", hint |-> "60-90 minutes",
                  tasks |-> b.deepWork],
                 [title |-> "Quick wins", hint |-> "Momentum boosters",
                  tasks |-> b.quickWins],
                 [title |-> "Catch up", hint |-> "Overdue or near-miss",
                  tasks |-> b.catchUp] >>,
              LAMBDA sec : Len(sec.tasks) > 0)

\* agentPlan without the early return for an empty open list.
agentPlanNoEarlyReturn(ts, now) ==
    LET open == openTasks(ts)
        freq == freqOf(open)
        ranked == rankedOf(open, freq, now)
        b == bucketsOf(ranked)
        sch == scheduleFrom(ranked, 1, << >>, DailyBudget)
    IN [summary |-> summaryParts(b),
        prioritized |-> SubSeq(ranked, 1, Min(TopCount, Len(ranked))),
        sections |-> sectionsOf(b),
        schedule |-> sch.schedule,
        totalMinutes |-> sumMinutes(sch.schedule, 1),
        ranked |-> ranked, critical |-> b.critical,
        deepWork |-> b.deepWork, quickWins |-> b.quickWins,
        catchUp |-> b.catchUp, used |-> b.used,
        freq |-> freq, budget |-> sch.budget]

\* The value of the agentPlan memo for a task list and a date.  The fields
\* summary, prioritized, sections, schedule and totalMinutes are the object
\* the memo returns; ranked, the four buckets, used, freq and budget are the
\* values of its locals when it returns (empty on the early return).
\* agentPlan with prioritized read from the buckets instead of the ranked
\* list.
agentPlanFromBuckets(ts, now) ==
    LET open == openTasks(ts)
    IN IF Len(open) = 0
       THEN [summary |-> << [text |-> "Add a task to get a plan.",
                             titles |-> << >>, reason |-> << >>] >>,
             prioritized |-> << >>, sections |-> << >>, schedule |-> << >>,
             totalMinutes |-> 0,
             ranked |-> << >>, critical |-> << >>, deepWork |-> << >>,
             quickWins |-> << >>, catchUp |-> << >>, used |-> {},
             freq |-> << >>, budget |-> DailyBudget]
       ELSE LET freq == freqOf(open)
                ranked == rankedOf(open, freq, now)
                b == bucketsOf(ranked)
                sch == scheduleFrom(ranked, 1, << >>, DailyBudget)
            IN [summary |-> summaryParts(b),
                prioritized |-> b.critical \o b.deepWork,
                sections |-> sectionsOf(b),
                schedule |-> sch.schedule,
                totalMinutes |-> sumMinutes(sch.schedule, 1),
                ranked |-> ranked, critical |-> b.critical,
                deepWork |-> b.deepWork, quickWins |-> b.quickWins,
                catchUp |-> b.catchUp, used |-> b.used,
                freq |-> freq, budget |-> sch.budget]

agentPlan(ts, now) ==
    LET open == openTasks(ts)
    IN IF Len(open) = 0
       THEN [summary |-> << [text |-> "Add a task to get a plan.",
                             titles |-> << >>, reason |-> << >>] >>,
             prioritized |-> << >>, sections |-> << >>, schedule |-> << >>,
             totalMinutes |-> 0,
             ranked |-> << >>, critical |-> << >>, deepWork |-> << >>,
             quickWins |-> << >>, catchUp |-> << >>, used |-> {},
             freq |-> << >>, budget |-> DailyBudget]
       ELSE LET freq == freqOf(open)
                ranked == rankedOf(open, freq, now)
                b == bucketsOf(ranked)
                sch == scheduleFrom(ranked, 1, << >>, DailyBudget)
            IN [summary |-> summaryParts(b),
                prioritized |-> SubSeq(ranked, 1, Min(TopCount, Len(ranked))),
                sections |-> sectionsOf(b),
                schedule |-> sch.schedule,
                totalMinutes |-> sumMinutes(sch.schedule, 1),
                ranked |-> ranked, critical |-> b.critical,
                deepWork |-> b.deepWork, quickWins |-> b.quickWins,
                catchUp |-> b.catchUp, used |-> b.used,
                freq |-> freq, budget |-> sch.budget]

----------------------------------------------------------------------------
(* PlanSectionScreen.agentPlan                                             *)

\* Mutant of sectionUrgencyOf: an overdue task ranked like an undated one.
sectionUrgencyOfNoOverdue(daysUntil) ==
    IF daysUntil.isNull \/ daysUntil.v < 0 THEN 1
    ELSE IF daysUntil.v = 0 THEN 8
    ELSE IF daysUntil.v <= 1 THEN 7
    ELSE IF daysUntil.v <= 3 THEN 6
    ELSE IF daysUntil.v <= 7 THEN 4
    ELSE IF daysUntil.v <= 14 THEN 3
    ELSE 1

\* The urgency IIFE of the section screen's map callback: its own copy of
\* the planner's ladder.
sectionUrgencyOf(daysUntil) ==
    IF daysUntil.isNull THEN 1
    ELSE IF daysUntil.v < 0 THEN 9
    ELSE IF daysUntil.v = 0 THEN 8
    ELSE IF daysUntil.v <= 1 THEN 7
    ELSE IF daysUntil.v <= 3 THEN 6
    ELSE IF daysUntil.v <= 7 THEN 4
    ELSE IF daysUntil.v <= 14 THEN 3
    ELSE 1

\* The map callback of the section screen's ranked: no similarity boost, no
\* estimate, no energy.
sectionPlannedTask(task, now) ==
    LET dueDate == parseDueDate(task.due_date)
        daysUntil == diffInDays(dueDate, now)
        score == 10 * (sectionUrgencyOf(daysUntil) + effortOf(task))
    IN [id |-> task.id, title |-> task.title, difficulty |-> task.difficulty,
        due_date |-> task.due_date, completed |-> task.completed,
        dueDate |-> dueDate, daysUntil |-> daysUntil, score |-> score,
        reason |-> dueClause(daysUntil) \o effortClause(task)]

sectionAgentPlan(ts, now) ==
    LET open == openTasks(ts)
        ranked == sortByScore([i \in DOMAIN open |-> sectionPlannedTask(open[i], now)])
        b == bucketsOf(ranked)
    IN [critical |-> b.critical, deepWork |-> b.deepWork,
        quickWins |-> b.quickWins, catchUp |-> b.catchUp, ranked |-> ranked]

----------------------------------------------------------------------------
(* Inputs                                                                  *)

\* The task rows the store can hold, as getTasks returns them (SELECT * FROM
\* tasks: the columns the screens read).  Titles: a plain word, keywords as
\* words, a keyword inside a longer word ("labs"), a repeated keyword, upper
\* case, punctuation, a leading blank.  Row 7 is completed.
Catalogue == <<
    [id |-> 1, title |-> <<"R", "e", "a", "d">>,
     difficulty |-> "easy", due_date |-> NoDate, completed |-> 0],
    [id |-> 2, title |-> <<"L", "a", "b", " ", "r", "e", "p", "o", "r", "t">>,
     difficulty |-> "hard", due_date |-> BadDate, completed |-> 0],
    [id |-> 3, title |-> <<"T", "i", "d", "y">>,
     difficulty |-> "medium", due_date |-> Ymd(11), completed |-> 0],
    [id |-> 4, title |-> <<"E", "s", "s", "a", "y", " ", "p", "r", "o", "j", "e", "c", "t", " ", "e", "x", "a", "m">>,
     difficulty |-> "hard", due_date |-> Ymd(9), completed |-> 0],
    [id |-> 5, title |-> <<"l", "a", "b", "s">>,
     difficulty |-> "medium", due_date |-> Ymd(24), completed |-> 0],
    [id |-> 6, title |-> <<"Q", "u", "i", "z", " ", "q", "u", "i", "z">>,
     difficulty |-> "easy", due_date |-> Ymd(11), completed |-> 0],
    [id |-> 7, title |-> <<"S", "T", "U", "D", "Y", "-", "e", "x", "a", "m">>,
     difficulty |-> "medium", due_date |-> Ymd(17), completed |-> 1],
    [id |-> 8, title |-> <<" ", "r", "e", "a", "d", ",", " ", "p", "l", "a", "n">>,
     difficulty |-> "easy", due_date |-> Ymd(9), completed |-> 0],
    [id |-> 9, title |-> <<"R", "e", "a", "d">>,
     difficulty |-> "easy", due_date |-> Ymd(13), completed |-> 0],
    [id |-> 10, title |-> <<"T", "i", "d", "y">>,
     difficulty |-> "easy", due_date |-> Ymd(10), completed |-> 0],
    [id |-> 11, title |-> <<"R", "e", "a", "d">>,
     difficulty |-> "easy", due_date |-> Ymd(12), completed |-> 0],
    [id |-> 12, title |-> <<"R", "e", "a", "d">>,
     difficulty |-> "easy", due_date |-> Ymd(9), completed |-> 0],
    [id |-> 13, title |-> <<"L", "a", "b", " ", "r", "e", "p", "o", "r", "t">>,
     difficulty |-> "hard", due_date |-> EmptyDate, completed |-> 0],
    [id |-> 14, title |-> <<"T", "i", "d", "y">>,
     difficulty |-> "easy", due_date |-> Ymd(17), completed |-> 0] >>

\* The days the clock can show: on the first the catalogue's due dates are
\* spread over the urgency tiers, on the second they are all overdue.
Dates == {10, 30}

Reverse(s) == [i \in DOMAIN s |-> s[Len(s) + 1 - i]]

\* The rows of a set of catalogue entries.  getTasks orders by created_at
\* DESC, a text of one-second resolution: rows come newest first, and rows
\* created within the same second in the order the engine picks.
rowsOf(S, order) ==
    LET asc == SelectSeq(SubSeq(Catalogue, 1, PoolSize), LAMBDA t : t.id \in S)
    IN IF order = "desc" THEN Reverse(asc) ELSE asc

PoolSets ==
    (SUBSET (1..SmallPool))
    \cup {(1..PoolSize) \ D : D \in {X \in SUBSET (1..PoolSize) : Cardinality(X) <= DropMax}}

TaskLists == {rowsOf(S, order) : S \in PoolSets, order \in {"asc", "desc"}}

\* Rows that differ in nothing but the due date: one task, or two tasks of
\* one title and one difficulty, each with no due date, an empty or
\* unparseable one, or a day from OffsetBack days before PairToday to
\* OffsetAhead days after it.
OffsetBack == 2
OffsetAhead == 16
PairToday == 10

Difficulties == {"easy", "medium", "hard"}

DueTexts ==
    {NoDate, EmptyDate, BadDate}
    \cup {Ymd(d) : d \in (PairToday - OffsetBack)..(PairToday + OffsetAhead)}

pairTask(id, difficulty, due) ==
    [id |-> id, title |-> <<"R", "e", "a", "d">>, difficulty |-> difficulty,
     due_date |-> due, completed |-> 0]

PairLists ==
    {<<pairTask(1, d, a)>> : d \in Difficulties, a \in DueTexts}
    \cup {<<pairTask(1, d, a), pairTask(2, d, b)>> :
            d \in Difficulties, a \in DueTexts, b \in DueTexts}

\* Rows that share vocabulary: n tasks of one difficulty and one due date,
\* the first k titled "Project plan" and the others "project: Project
\* notes", so that every title holds the word project, in two spellings, and
\* one title holds it twice.
SharedMax == 10

sharedTask(i, k, difficulty, due) ==
    [id |-> i,
     title |-> IF i <= k
               THEN <<"P", "r", "o", "j", "e", "c", "t", " ", "p", "l", "a", "n">>
               ELSE <<"p", "r", "o", "j", "e", "c", "t", ":", " ",
                      "P", "r", "o", "j", "e", "c", "t", " ",
                      "n", "o", "t", "e", "s">>,
     difficulty |-> difficulty, due_date |-> due, completed |-> 0]

SharedLists ==
    UNION {{[i \in 1..n |-> sharedTask(i, k, d, due)] :
               k \in 0..n, d \in Difficulties,
               due \in {NoDate, Ymd(PairToday + 1)}} : n \in 1..SharedMax}

\* Rows that differ in difficulty and in being overdue only: up to MixMax
\* tasks of one title, each easy, medium or hard and either without a due
\* date or due the day before PairToday, listed with the lowest score first
\* (the rank depends on the list order between equal scores only).
MixMax == 7

MixKinds == <<
    [difficulty |-> "easy", due |-> NoDate],
    [difficulty |-> "medium", due |-> NoDate],
    [difficulty |-> "hard", due |-> NoDate],
    [difficulty |-> "easy", due |-> Ymd(PairToday - 1)],
    [difficulty |-> "medium", due |-> Ymd(PairToday - 1)],
    [difficulty |-> "hard", due |-> Ymd(PairToday - 1)] >>

mixTask(i, k) ==
    [id |-> i, title |-> <<"T", "i", "d", "y">>,
     difficulty |-> MixKinds[k].difficulty, due_date |-> MixKinds[k].due,
     completed |-> 0]

MixLists ==
    UNION {{[i \in 1..n |-> mixTask(i, s[i])] :
               s \in {f \in [1..n -> DOMAIN MixKinds] :
                         \A i \in 1..(n - 1) : f[i] <= f[i + 1]}} :
           n \in 0..MixMax}

\* Rows that differ in the title: one task whose title holds no keyword of
\* estimateMinutes, one keyword (in lower case, capitalised, in upper case,
\* twice, inside a longer word, broken by a blank), several keywords, or all
\* eight.
TitleTexts == {
    <<"W", "a", "l", "k">>,
    <<"e", "s", "s", "a", "y">>,
    <<"P", "r", "o", "j", "e", "c", "t">>,
    <<"R", "E", "S", "E", "A", "R", "C", "H">>,
    <<"s", "t", "u", "d", "y">>,
    <<"Q", "u", "i", "z", " ", "q", "u", "i", "z">>,
    <<"e", "x", "a", "m">>,
    <<"l", "a", "b", "s">>,
    <<"r", "e", "p", "o", "r", "t">>,
    <<"L", "a", "b", " ", "r", "e", "p", "o", "r", "t", " ", "e",
      "s", "s", "a", "y">>,
    <<"S", "t", "u", "d", "y", " ", "f", "o", "r", " ", "e", "x",
      "a", "m", ",", " ", "r", "e", "s", "e", "a", "r", "c", "h",
      " ", "p", "r", "o", "j", "e", "c", "t">>,
    <<"e", "x", "a", "m", "i", "n", "e", " ", "l", "a", "b", "-",
      "r", "e", "p", "o", "r", "t">>,
    <<"q", "u", "i", " ", "z">>,
    <<"E", "s", "s", "a", "y", " ", "p", "r", "o", "j", "e", "c",
      "t", " ", "r", "e", "s", "e", "a", "r", "c", "h", " ", "s",
      "t", "u", "d", "y", " ", "q", "u", "i", "z", " ", "e", "x",
      "a", "m", " ", "l", "a", "b", " ", "r", "e", "p", "o", "r",
      "t">> }

titleTask(title, difficulty, due) ==
    [id |-> 1, title |-> title, difficulty |-> difficulty,
     due_date |-> due, completed |-> 0]

TitleLists ==
    {<<titleTask(t, d, due)>> :
        t \in TitleTexts, d \in Difficulties,
        due \in {NoDate, BadDate, Ymd(PairToday)}}

----------------------------------------------------------------------------
(* The screens                                                             *)

\* The error state: null, or the message of the catch branch of loadTasks.
NoError == [isNull |-> TRUE, text |-> ""]
LoadError == [isNull |-> FALSE,
              text |-> "Couldn't load tasks. Try reopening the app."]

\* The database after initDatabase on a fresh install: no user, no session
\* row (session 0), no task, and no task id handed out yet.
EmptyDb == [users |-> << >>, session |-> 0, tasks |-> << >>, seq |-> 0]

\* No database operation has run yet.
NoOp == [name |-> "none", session |-> 0, user |-> 0, owners |-> {}, ok |-> TRUE]

NoPass == [some |-> FALSE, tasks |-> << >>, today |-> 0, plan |-> << >>]

\* Both screens start with useState([]) and the memo of the empty list.
Init ==
    /\ rows \in TaskLists
    /\ today \in Dates
    /\ tasks = << >>
    /\ plan = agentPlan(<< >>, today)
    /\ prev = NoPass
    /\ error = NoError
    /\ refreshing = FALSE
    /\ loads = << >>
    /\ db = EmptyDb
    /\ signedOut = FALSE
    /\ lastOp = NoOp
    /\ secTasks = << >>
    /\ secPlan = sectionAgentPlan(<< >>, today)

\* PlannerScreen.loadTasks, getTasks resolving: setTasks(data), and the
\* render that follows recomputes openTasks and agentPlan.
LoadTasks ==
    /\ tasks' = rows
    /\ plan' = agentPlan(rows, today)
    /\ prev' = [some |-> TRUE, tasks |-> tasks, today |-> today, plan |-> plan]
    /\ error' = NoError
    /\ UNCHANGED <<rows, today, secTasks, secPlan, refreshing, loads, db,
                   signedOut, lastOp>>

\* PlanSectionScreen.loadTasks.
SectionLoadTasks ==
    /\ secTasks' = rows
    /\ secPlan' = sectionAgentPlan(rows, today)
    /\ UNCHANGED <<rows, today, tasks, plan, prev, error, refreshing, loads,
                   db, signedOut, lastOp>>

Next == LoadTasks \/ SectionLoadTasks

Spec == Init /\ [][Next]_vars

\* The screens over the rows that differ in the due date only.
InitPair ==
    /\ rows \in PairLists
    /\ today = PairToday
    /\ tasks = << >>
    /\ plan = agentPlan(<< >>, today)
    /\ prev = NoPass
    /\ error = NoError
    /\ refreshing = FALSE
    /\ loads = << >>
    /\ db = EmptyDb
    /\ signedOut = FALSE
    /\ lastOp = NoOp
    /\ secTasks = << >>
    /\ secPlan = sectionAgentPlan(<< >>, today)

PairSpec == InitPair /\ [][Next]_vars

\* The screens over the rows that share vocabulary.
InitShared ==
    /\ rows \in SharedLists
    /\ today = PairToday
    /\ tasks = << >>
    /\ plan = agentPlan(<< >>, today)
    /\ prev = NoPass
    /\ error = NoError
    /\ refreshing = FALSE
    /\ loads = << >>
    /\ db = EmptyDb
    /\ signedOut = FALSE
    /\ lastOp = NoOp
    /\ secTasks = << >>
    /\ secPlan = sectionAgentPlan(<< >>, today)

SharedSpec == InitShared /\ [][Next]_vars

\* The screens over the rows that differ in difficulty and due date.
InitMix ==
    /\ rows \in MixLists
    /\ today = PairToday
    /\ tasks = << >>
    /\ plan = agentPlan(<< >>, today)
    /\ prev = NoPass
    /\ error = NoError
    /\ refreshing = FALSE
    /\ loads = << >>
    /\ db = EmptyDb
    /\ signedOut = FALSE
    /\ lastOp = NoOp
    /\ secTasks = << >>
    /\ secPlan = sectionAgentPlan(<< >>, today)

MixSpec == InitMix /\ [][Next]_vars

\* The screens over the rows that differ in the title.
InitTitle ==
    /\ rows \in TitleLists
    /\ today = PairToday
    /\ tasks = << >>
    /\ plan = agentPlan(<< >>, today)
    /\ prev = NoPass
    /\ error = NoError
    /\ refreshing = FALSE
    /\ loads = << >>
    /\ db = EmptyDb
    /\ signedOut = FALSE
    /\ lastOp = NoOp
    /\ secTasks = << >>
    /\ secPlan = sectionAgentPlan(<< >>, today)

TitleSpec == InitTitle /\ [][Next]_vars

----------------------------------------------------------------------------
(* Planner loads against a store that changes                              *)

\* Calls of loadTasks in one behaviour, and follow-up tasks added.
MaxLoads == 3
MaxFollowUps == 1

\* The store at the start: any of two catalogue rows, newest first.
LoadPool == {4, 6}
LoadLists == {rowsOf(S, "desc") : S \in SUBSET LoadPool}

\* One call of loadTasks: its showSpinner argument, where it stands (at the
\* await with the query not yet run, at the await with the rows read, at the
\* await with getTasks rejected, or returned), the rows it read, and
\* whether getTasks threw.
newLoad(spinner) ==
    [spinner |-> spinner, pc |-> "await", data |-> << >>, threw |-> FALSE]

InitLoad ==
    /\ rows \in LoadLists
    /\ today = PairToday
    /\ tasks = << >>
    /\ plan = agentPlan(<< >>, today)
    /\ prev = NoPass
    /\ error = NoError
    /\ refreshing = FALSE
    /\ loads = << >>
    /\ db = EmptyDb
    /\ signedOut = FALSE
    /\ lastOp = NoOp
    /\ secTasks = << >>
    /\ secPlan = sectionAgentPlan(<< >>, today)

\* loadTasks up to its await: the focus effect and the reloads of the
\* handlers pass no spinner, pull-to-refresh and "Refresh plan" pass true.
StartLoad(spinner) ==
    /\ Len(loads) < MaxLoads
    /\ loads' = Append(loads, newLoad(spinner))
    /\ refreshing' = (spinner \/ refreshing)
    /\ UNCHANGED <<rows, today, tasks, plan, prev, error, secTasks, secPlan,
                   db, signedOut, lastOp>>

\* getTasks of call n runs its SELECT on the store as it is now.
SelectRows(n) ==
    /\ loads[n].pc = "await"
    /\ loads' = [loads EXCEPT ![n].pc = "read", ![n].data = rows]
    /\ UNCHANGED <<rows, today, tasks, plan, prev, error, refreshing,
                   secTasks, secPlan, db, signedOut, lastOp>>

\* getTasks of call n rejects.
SelectFails(n) ==
    /\ loads[n].pc = "await"
    /\ loads' = [loads EXCEPT ![n].pc = "rejected", ![n].threw = TRUE]
    /\ UNCHANGED <<rows, today, tasks, plan, prev, error, refreshing,
                   secTasks, secPlan, db, signedOut, lastOp>>

\* Call n resumes after the await with its rows: the try block, then the
\* finally block, then the render that recomputes the memos.
ResolveLoad(n) ==
    /\ loads[n].pc = "read"
    /\ tasks' = loads[n].data
    /\ plan' = agentPlan(loads[n].data, today)
    /\ prev' = [some |-> TRUE, tasks |-> tasks, today |-> today, plan |-> plan]
    /\ error' = NoError
    /\ refreshing' = (IF loads[n].spinner THEN FALSE ELSE refreshing)
    /\ loads' = [loads EXCEPT ![n].pc = "done"]
    /\ UNCHANGED <<rows, today, secTasks, secPlan, db, signedOut, lastOp>>

\* The catch block without setTasks([]).
CatchLoadKeepTasks(n) ==
    /\ loads[n].pc = "rejected"
    /\ error' = LoadError
    /\ refreshing' = (IF loads[n].spinner THEN FALSE ELSE refreshing)
    /\ loads' = [loads EXCEPT ![n].pc = "done"]
    /\ UNCHANGED <<rows, today, tasks, plan, prev, secTasks, secPlan, db,
                   signedOut, lastOp>>

\* Call n resumes after the await with the rejection: the catch block, then
\* the finally block, then the render.
CatchLoad(n) ==
    /\ loads[n].pc = "rejected"
    /\ tasks' = << >>
    /\ plan' = agentPlan(<< >>, today)
    /\ prev' = [some |-> TRUE, tasks |-> tasks, today |-> today, plan |-> plan]
    /\ error' = LoadError
    /\ refreshing' = (IF loads[n].spinner THEN FALSE ELSE refreshing)
    /\ loads' = [loads EXCEPT ![n].pc = "done"]
    /\ UNCHANGED <<rows, today, secTasks, secPlan, db, signedOut, lastOp>>

\* UPDATE tasks SET completed = ? WHERE id = ?
withCompleted(store, id, completed) ==
    [i \in DOMAIN store |->
        IF store[i].id = id
        THEN [store[i] EXCEPT !.completed = IF completed THEN 1 ELSE 0]
        ELSE store[i]]

\* handleToggleComplete on a displayed task, the update succeeding:
\* setTaskCompleted(task.id, !task.completed), then loadTasks().
ToggleComplete(k) ==
    /\ Len(loads) < MaxLoads
    /\ rows' = withCompleted(rows, tasks[k].id, tasks[k].completed = 0)
    /\ loads' = Append(loads, newLoad(FALSE))
    /\ UNCHANGED <<today, tasks, plan, prev, error, refreshing, secTasks,
                   secPlan, db, signedOut, lastOp>>

\* The follow-up task of a completed task: "Review " and its title, the same
\* difficulty, due tomorrow, an id above every id in use, the newest row.
followUp(store, task) ==
    << [id |-> Len(Catalogue) + 1 + Len(store),
        title |-> <<"R", "e", "v", "i", "e", "w", " ">> \o task.title,
        difficulty |-> task.difficulty, due_date |-> Ymd(today + 1),
        completed |-> 0] >> \o store

isFollowUp(t) == t.id > Len(Catalogue)

\* "Yes, add follow-up" in the alert shown once a task has been marked
\* complete and reloaded: addTask, then loadTasks().
AddFollowUp(i) ==
    /\ Len(loads) < MaxLoads
    /\ rows[i].completed = 1
    /\ Cardinality({j \in DOMAIN rows : isFollowUp(rows[j])}) < MaxFollowUps
    /\ rows' = followUp(rows, rows[i])
    /\ loads' = Append(loads, newLoad(FALSE))
    /\ UNCHANGED <<today, tasks, plan, prev, error, refreshing, secTasks,
                   secPlan, db, signedOut, lastOp>>

NextLoad ==
    \/ \E spinner \in BOOLEAN : StartLoad(spinner)
    \/ \E n \in DOMAIN loads : SelectRows(n)
    \/ \E n \in DOMAIN loads : SelectFails(n)
    \/ \E n \in DOMAIN loads : ResolveLoad(n)
    \/ \E n \in DOMAIN loads : CatchLoad(n)
    \/ \E k \in DOMAIN tasks : ToggleComplete(k)
    \/ \E i \in DOMAIN rows : AddFollowUp(i)

LoadSpec == InitLoad /\ [][NextLoad]_vars

----------------------------------------------------------------------------
(* Accounts, the session row and the task table (lib/database)             *)

\* The users table holds at most MaxUsers rows and the tasks table hands out
\* at most MaxTaskId ids (AUTOINCREMENT never reuses one).
MaxUsers == 2
MaxTaskId == 2

\* The e-mail texts typed into the forms, one with a capital and a trailing
\* blank; the password chosen at sign-up and the passwords typed at sign-in
\* (the right one, and none); the provider; what Date.now() prints.
EmailInputs == {<<"a">>, <<"B", " ">>}
NewPasswords == {"p"}
PasswordInputs == {"p", ""}
Providers == {"google"}
Stamps == {"1"}

screenVars == <<rows, today, tasks, plan, prev, secTasks, secPlan, error,
                refreshing, loads>>

RECURSIVE trimStart(_)
trimStart(s) ==
    IF s # << >> /\ Head(s) = " " THEN trimStart(Tail(s)) ELSE s

RECURSIVE trimEnd(_)
trimEnd(s) ==
    IF s # << >> /\ s[Len(s)] = " " THEN trimEnd(SubSeq(s, 1, Len(s) - 1)) ELSE s

trim(s) == trimEnd(trimStart(s))

\* const normalizeEmail = (email) => email.trim().toLowerCase()
normalizeEmail(email) == toLowerCase(trim(email))

GuestEmail == <<"g", "u", "e", "s", "t", "@", "l", "o", "c", "a", "l">>

providerText(provider) ==
    IF provider = "apple" THEN <<"a", "p", "p", "l", "e">>
    ELSE <<"g", "o", "o", "g", "l", "e">>

\* `${provider}-${Date.now()}@local`
fallbackEmail(provider, stamp) ==
    providerText(provider) \o <<"-", stamp, "@", "l", "o", "c", "a", "l">>

\* SELECT ... FROM users WHERE email = ?: the id of the row, 0 for none.
findUserByEmail(d, email) ==
    LET normalized == normalizeEmail(email)
        found == {i \in DOMAIN d.users : d.users[i].email = normalized}
    IN IF found = {} THEN 0 ELSE d.users[CHOOSE i \in found : TRUE].id

\* INSERT INTO users: the next id, the row appended.
insertUser(d, email, provider, password) ==
    [d EXCEPT !.users = Append(@, [id |-> Len(d.users) + 1, email |-> email,
                                   provider |-> provider, password |-> password])]

\* The upsert of the one sessions row.
setActiveUser(d, userId) == [d EXCEPT !.session = userId]

\* The id of the user the session row names, 0 without a session row or
\* without that user.
getActiveUser(d) ==
    IF d.session = 0 THEN 0
    ELSE IF \E i \in DOMAIN d.users : d.users[i].id = d.session THEN d.session
    ELSE 0

\* The session's user; without one, the first user by id is made the
\* session's user; without any user, a Guest is created and made active.
ensureActiveUser(d) ==
    IF getActiveUser(d) # 0 THEN [db |-> d, user |-> getActiveUser(d)]
    ELSE IF d.users # << >>
    THEN [db |-> setActiveUser(d, d.users[1].id), user |-> d.users[1].id]
    ELSE LET created == insertUser(d, GuestEmail, "local", Null)
             guest == findUserByEmail(created, GuestEmail)
         IN [db |-> IF guest # 0 THEN setActiveUser(created, guest) ELSE created,
             user |-> guest]

getActiveUserId(d) == ensureActiveUser(d)

\* The user ids on the task rows of a set of positions.
ownersOf(d, P) == {d.tasks[i].user_id : i \in P}

\* The positions of the task rows that WHERE id = ? AND user_id = ? selects.
ownRow(d, id, userId) ==
    {i \in DOMAIN d.tasks : d.tasks[i].id = id /\ d.tasks[i].user_id = userId}

opOf(name, userId, owners, ok) ==
    [name |-> name, session |-> db.session, user |-> userId,
     owners |-> owners, ok |-> ok]

InitAuth ==
    /\ rows = << >>
    /\ today = PairToday
    /\ tasks = << >>
    /\ plan = agentPlan(<< >>, today)
    /\ prev = NoPass
    /\ error = NoError
    /\ refreshing = FALSE
    /\ loads = << >>
    /\ secTasks = << >>
    /\ secPlan = sectionAgentPlan(<< >>, today)
    /\ db = EmptyDb
    /\ signedOut = FALSE
    /\ lastOp = NoOp

\* signOutUser: DELETE FROM sessions WHERE id = 1.
SignOutUser ==
    /\ db' = [db EXCEPT !.session = 0]
    /\ signedOut' = TRUE
    /\ lastOp' = opOf("signOutUser", 0, {}, TRUE)
    /\ UNCHANGED screenVars

\* signUpWithEmail: throws for a registered e-mail, else inserts the user
\* and makes it the session's user.
SignUpWithEmail(email, password) ==
    LET normalizedEmail == normalizeEmail(email)
        existing == findUserByEmail(db, normalizedEmail)
        created == insertUser(db, normalizedEmail, "email", Some(password))
        user == findUserByEmail(created, normalizedEmail)
    IN /\ existing = 0 => Len(db.users) < MaxUsers
       /\ IF existing # 0
          THEN /\ lastOp' = opOf("signUpWithEmail", 0, {}, FALSE)
               /\ UNCHANGED <<db, signedOut>>
          ELSE /\ db' = setActiveUser(created, user)
               /\ signedOut' = FALSE
               /\ lastOp' = opOf("signUpWithEmail", user, {}, TRUE)
       /\ UNCHANGED screenVars

\* signInWithEmail: null for an unknown e-mail or another password (a null
\* password compares as ""), else the user becomes the session's user.
SignInWithEmail(email, password) ==
    LET user == findUserByEmail(db, email)
        stored == IF user = 0 THEN Null ELSE db.users[user].password
        known == IF stored.isNull THEN "" ELSE stored.v
    IN /\ IF user = 0 \/ known # password
          THEN /\ lastOp' = opOf("signInWithEmail", 0, {}, FALSE)
               /\ UNCHANGED <<db, signedOut>>
          ELSE /\ db' = setActiveUser(db, user)
               /\ signedOut' = FALSE
               /\ lastOp' = opOf("signInWithEmail", user, {}, TRUE)
       /\ UNCHANGED screenVars

\* signInWithProvider without a profile e-mail: the user of the fallback
\* e-mail is found or inserted, and becomes the session's user.
SignInWithProvider(provider, stamp) ==
    LET email == fallbackEmail(provider, stamp)
        found == findUserByEmail(db, email)
        created == IF found = 0 THEN insertUser(db, email, provider, Null) ELSE db
        user == findUserByEmail(created, email)
    IN /\ found = 0 => Len(db.users) < MaxUsers
       /\ db' = IF user # 0 THEN setActiveUser(created, user) ELSE created
       /\ signedOut' = IF user # 0 THEN FALSE ELSE signedOut
       /\ lastOp' = opOf("signInWithProvider", user, {}, user # 0)
       /\ UNCHANGED screenVars

\* getTasks: SELECT * FROM tasks WHERE user_id = ?.
GetTasks ==
    LET e == getActiveUserId(db)
        read == {i \in DOMAIN e.db.tasks : e.db.tasks[i].user_id = e.user}
    IN /\ db' = e.db
       /\ lastOp' = opOf("getTasks", e.user,
                         IF e.user = 0 THEN {} ELSE ownersOf(e.db, read), TRUE)
       /\ UNCHANGED <<signedOut, screenVars>>

\* getTask: SELECT * FROM tasks WHERE id = ? AND user_id = ?.
GetTask(id) ==
    LET e == getActiveUserId(db)
    IN /\ db' = e.db
       /\ lastOp' = opOf("getTask", e.user,
                         IF e.user = 0 THEN {}
                         ELSE ownersOf(e.db, ownRow(e.db, id, e.user)), TRUE)
       /\ UNCHANGED <<signedOut, screenVars>>

\* addTask: throws without a user id, else inserts a row of that user.
AddTask ==
    LET e == getActiveUserId(db)
        row == [id |-> e.db.seq + 1, user_id |-> e.user, title |-> "new",
                completed |-> 0]
    IN /\ db.seq < MaxTaskId
       /\ IF e.user = 0
          THEN /\ db' = e.db
               /\ lastOp' = opOf("addTask", 0, {}, FALSE)
          ELSE /\ db' = [e.db EXCEPT !.tasks = Append(@, row), !.seq = @ + 1]
               /\ lastOp' = opOf("addTask", e.user, {e.user}, TRUE)
       /\ UNCHANGED <<signedOut, screenVars>>

\* updateTask: UPDATE tasks SET title = ?, ... WHERE id = ? AND user_id = ?.
UpdateTask(id) ==
    LET e == getActiveUserId(db)
        hit == ownRow(e.db, id, e.user)
    IN /\ IF e.user = 0
          THEN /\ db' = e.db
               /\ lastOp' = opOf("updateTask", 0, {}, FALSE)
          ELSE /\ db' = [e.db EXCEPT !.tasks =
                            [i \in DOMAIN @ |->
                                IF i \in hit THEN [@[i] EXCEPT !.title = "edited"]
                                ELSE @[i]]]
               /\ lastOp' = opOf("updateTask", e.user, ownersOf(e.db, hit), TRUE)
       /\ UNCHANGED <<signedOut, screenVars>>

\* deleteTask: DELETE FROM tasks WHERE id = ? AND user_id = ?.
DeleteTask(id) ==
    LET e == getActiveUserId(db)
        hit == ownRow(e.db, id, e.user)
    IN /\ IF e.user = 0
          THEN /\ db' = e.db
               /\ lastOp' = opOf("deleteTask", 0, {}, FALSE)
          ELSE /\ db' = [e.db EXCEPT !.tasks =
                            SelectSeq(@, LAMBDA r : ~(r.id = id /\ r.user_id = e.user))]
               /\ lastOp' = opOf("deleteTask", e.user, ownersOf(e.db, hit), TRUE)
       /\ UNCHANGED <<signedOut, screenVars>>

\* setTaskCompleted: UPDATE tasks SET completed = ? WHERE id = ? AND
\* user_id = ?.
SetTaskCompleted(id, completed) ==
    LET e == getActiveUserId(db)
        hit == ownRow(e.db, id, e.user)
    IN /\ IF e.user = 0
          THEN /\ db' = e.db
               /\ lastOp' = opOf("setTaskCompleted", 0, {}, FALSE)
          ELSE /\ db' = [e.db EXCEPT !.tasks =
                            [i \in DOMAIN @ |->
                                IF i \in hit
                                THEN [@[i] EXCEPT !.completed = IF completed THEN 1 ELSE 0]
                                ELSE @[i]]]
               /\ lastOp' = opOf("setTaskCompleted", e.user, ownersOf(e.db, hit), TRUE)
       /\ UNCHANGED <<signedOut, screenVars>>

NextAuth ==
    \/ SignOutUser
    \/ \E email \in EmailInputs, password \in NewPasswords :
          SignUpWithEmail(email, password)
    \/ \E email \in EmailInputs, password \in PasswordInputs :
          SignInWithEmail(email, password)
    \/ \E provider \in Providers, stamp \in Stamps :
          SignInWithProvider(provider, stamp)
    \/ GetTasks
    \/ \E id \in 1..MaxTaskId : GetTask(id)
    \/ AddTask
    \/ \E id \in 1..MaxTaskId : UpdateTask(id)
    \/ \E id \in 1..MaxTaskId : DeleteTask(id)
    \/ \E id \in 1..MaxTaskId, completed \in BOOLEAN : SetTaskCompleted(id, completed)

AuthSpec == InitAuth /\ [][NextAuth]_vars

----------------------------------------------------------------------------
(* Hero stats (PlannerScreen.stats) and TasksFilterScreen.filtered         *)

\* PlannerScreen.stats over the open tasks: the three counters use the
\* rounded day offset of diffInDays.
stats(ts, now) ==
    LET open == openTasks(ts)
        days(task) == diffInDays(parseDueDate(task.due_date), now)
        dated == {i \in DOMAIN open : ~days(open[i]).isNull}
    IN [open |-> Len(open),
        overdue |-> Cardinality({i \in dated : days(open[i]).v < 0}),
        dueSoon |-> Cardinality({i \in dated :
                        days(open[i]).v <= 3 /\ days(open[i]).v >= 0}),
        dueToday |-> Cardinality({i \in dated : days(open[i]).v = 0}),
        deep |-> Cardinality({i \in DOMAIN open : open[i].difficulty # "easy"}),
        quick |-> Cardinality({i \in DOMAIN open : open[i].difficulty = "easy"})]

\* dateFromTask of the filter screen: null for a falsy or invalid due date.
dateFromTask(task) ==
    IF task.due_date.kind \in {"null", "empty"} THEN Null
    ELSE IF task.due_date.kind = "bad" THEN Null
    ELSE Some(midnightHours(task.due_date.day))

\* daysDiff of the filter screen: the time from today's midnight to the
\* date, not rounded.  It is kept in hours here, so d days is d * HoursPerDay.
daysDiff(date, now) ==
    IF date.isNull THEN Null ELSE Some(date.v - midnightHours(now))

\* The filter callback of TasksFilterScreen.filtered ("recent" reads
\* created_at, which the rows here do not carry, and is left out).
passesFilter(task, filter, now) ==
    LET dueDiff == daysDiff(dateFromTask(task), now)
    IN IF task.completed # 0 THEN FALSE
       ELSE IF filter = "open" THEN TRUE
       ELSE IF filter = "overdue" THEN ~dueDiff.isNull /\ dueDiff.v < 0
       ELSE IF filter = "today" THEN ~dueDiff.isNull /\ dueDiff.v = 0
       ELSE IF filter = "week"
       THEN ~dueDiff.isNull /\ dueDiff.v >= 0 /\ dueDiff.v <= 7 * HoursPerDay
       ELSE IF filter = "next3"
       THEN ~dueDiff.isNull /\ dueDiff.v >= 0 /\ dueDiff.v <= 2 * HoursPerDay
       ELSE IF filter = "next7"
       THEN ~dueDiff.isNull /\ dueDiff.v >= 0 /\ dueDiff.v <= 6 * HoursPerDay
       ELSE TRUE

filtered(ts, filter, now) ==
    SelectSeq(ts, LAMBDA task : passesFilter(task, filter, now))

----------------------------------------------------------------------------
(* Properties                                                              *)

idsOf(seq) == {seq[i].id : i \in DOMAIN seq}

openIds(ts) == {ts[i].id : i \in {j \in DOMAIN ts : ts[j].completed = 0}}

\* The four buckets of a plan hold pairwise disjoint sets of ids, and no
\* bucket lists an id twice.
Disjoint4(p) ==
    LET B == <<p.critical, p.deepWork, p.quickWins, p.catchUp>>
    IN /\ \A i, j \in 1..4 : i # j => idsOf(B[i]) \cap idsOf(B[j]) = {}
       /\ \A i \in 1..4 : Cardinality(idsOf(B[i])) = Len(B[i])

\* C1: for every list of open tasks with distinct ids and every date, no
\* task id appears in more than one of the four buckets (critical,
\* deep-focus, quick-wins, catch-up), on the planner and on the plan-section
\* screen.
C1_MutualExclusion == Disjoint4(plan) /\ Disjoint4(secPlan)

\* C1 witness: both screens have computed a plan in which all four buckets
\* hold a task.
C1_Witness ==
    /\ \A p \in {plan, secPlan} :
          p.critical # << >> /\ p.deepWork # << >>
          /\ p.quickWins # << >> /\ p.catchUp # << >>

\* C2: the buckets respect their capacities: critical at most 3, deep-focus
\* at most 2, quick-wins at most 3, catch-up at most 2.
C2_Capacity ==
    /\ Len(plan.critical) <= 3
    /\ Len(plan.deepWork) <= 2
    /\ Len(plan.quickWins) <= 3
    /\ Len(plan.catchUp) <= 2

\* C2 witness: critical, quick-wins and catch-up are full, and an overdue
\* open task is left that no bucket took.
C2_Witness ==
    /\ Len(plan.critical) = 3 /\ Len(plan.quickWins) = 3 /\ Len(plan.catchUp) = 2
    /\ \E i \in DOMAIN plan.ranked :
          /\ plan.ranked[i].id \notin plan.used
          /\ ~plan.ranked[i].daysUntil.isNull /\ plan.ranked[i].daysUntil.v < 0

\* The sum of the minutes of a schedule's slots.
RECURSIVE slotSum(_)
slotSum(schedule) ==
    IF schedule = << >> THEN 0
    ELSE Head(schedule).minutes + slotSum(Tail(schedule))

\* C3: the sum of the schedule's slot minutes is at most 180, or the
\* schedule has exactly one slot.
C3_ScheduleBudget ==
    slotSum(plan.schedule) <= 180 \/ Len(plan.schedule) = 1

\* C3 witness: the schedule has at least two slots and stopped, with budget
\* left and below six slots, at a ranked task that did not fit.
C3_Witness ==
    /\ Len(plan.schedule) >= 2 /\ Len(plan.schedule) < 6
    /\ Len(plan.schedule) < Len(plan.ranked)
    /\ plan.budget > 0
    /\ Min(plan.ranked[Len(plan.schedule) + 1].estMinutes, 90) > plan.budget

\* C4: the schedule has at most 6 slots.
C4_ScheduleSize == Len(plan.schedule) <= 6

\* C4 witness: six slots are scheduled and the seventh ranked task would
\* still have fitted the budget left.
C4_Witness ==
    /\ Len(plan.schedule) = 6
    /\ Len(plan.ranked) > 6
    /\ plan.budget > 0
    /\ Min(plan.ranked[7].estMinutes, 90) <= plan.budget

\* C5: a task whose completed flag is set never appears in prioritized, in
\* a bucket or in the schedule, of either screen.
C5_CompletedExcluded ==
    /\ \A i \in DOMAIN tasks :
          tasks[i].completed # 0 =>
              tasks[i].id \notin
                  idsOf(plan.prioritized) \cup idsOf(plan.ranked)
                  \cup idsOf(plan.critical) \cup idsOf(plan.deepWork)
                  \cup idsOf(plan.quickWins) \cup idsOf(plan.catchUp)
                  \cup idsOf(plan.schedule)
                  \cup UNION {idsOf(plan.sections[k].tasks) : k \in DOMAIN plan.sections}
    /\ \A i \in DOMAIN secTasks :
          secTasks[i].completed # 0 =>
              secTasks[i].id \notin
                  idsOf(secPlan.critical) \cup idsOf(secPlan.deepWork)
                  \cup idsOf(secPlan.quickWins) \cup idsOf(secPlan.catchUp)

\* C5 witness: both screens hold a list with a completed task, loaded from
\* the store, and the planner has ranked, bucketed and scheduled the rest.
C5_Witness ==
    /\ \E i \in DOMAIN tasks : tasks[i].completed # 0
    /\ \E i \in DOMAIN secTasks : secTasks[i].completed # 0
    /\ plan.prioritized # << >> /\ plan.schedule # << >>
    /\ secPlan.critical # << >>

\* The first n elements of a sequence, or all of it when it is shorter.
firstUpTo(seq, n) == SubSeq(seq, 1, IF Len(seq) < n THEN Len(seq) ELSE n)

\* The buckets as four greedy passes over a ranked order, each pass taking,
\* in ranked order, the first tasks that satisfy its predicate and that no
\* earlier pass took.
GreedyBuckets(r, p) ==
    LET crit == firstUpTo(r, 3)
        deep == firstUpTo(SelectSeq(r, LAMBDA t :
                    t.id \notin idsOf(crit) /\ t.difficulty # "easy"), 2)
        quick == firstUpTo(SelectSeq(r, LAMBDA t :
                    t.id \notin idsOf(crit) \cup idsOf(deep)
                    /\ t.difficulty = "easy"), 3)
        catch == firstUpTo(SelectSeq(r, LAMBDA t :
                    t.id \notin idsOf(crit) \cup idsOf(deep) \cup idsOf(quick)
                    /\ ~t.daysUntil.isNull /\ t.daysUntil.v < 0), 2)
    IN /\ p.critical = crit
       /\ p.deepWork = deep
       /\ p.quickWins = quick
       /\ p.catchUp = catch

\* C6: the four buckets equal the result of four sequential greedy passes
\* over the ranked order sharing one used-id set, in the order critical (the
\* first min(3, n) ranked tasks), deep-focus (up to 2, difficulty not easy),
\* quick-wins (up to 3, difficulty easy), catch-up (up to 2, daysUntilDue
\* non-null and negative); each bucket lists its tasks in ranked order.
C6_GreedyPasses ==
    GreedyBuckets(plan.ranked, plan) /\ GreedyBuckets(secPlan.ranked, secPlan)

\* C6 witness: deep-focus and catch-up hold tasks, and deep-focus passed
\* over an easy task that critical had left and that ranks above its first
\* pick.
C6_Witness ==
    /\ plan.deepWork # << >> /\ plan.catchUp # << >>
    /\ \E i, j \in DOMAIN plan.ranked :
          /\ i < j
          /\ plan.ranked[j].id = plan.deepWork[1].id
          /\ plan.ranked[i].difficulty = "easy"
          /\ plan.ranked[i].id \notin idsOf(plan.critical)

\* The position of the task with an id in a task list.
posIn(ts, id) == CHOOSE k \in DOMAIN ts : ts[k].id = id

\* A ranked order r of the task list ts: a permutation of its open tasks,
\* scores never increasing, equal scores in the order of ts.
RankedOrder(r, ts) ==
    /\ Len(r) = Cardinality(openIds(ts))
    /\ idsOf(r) = openIds(ts)
    /\ \A i \in DOMAIN r :
          LET t == ts[posIn(ts, r[i].id)]
          IN r[i].title = t.title /\ r[i].difficulty = t.difficulty
             /\ r[i].due_date = t.due_date
    /\ \A i, j \in DOMAIN r : i < j => r[i].score >= r[j].score
    /\ \A i, j \in DOMAIN r :
          (i < j /\ r[i].score = r[j].score)
              => posIn(ts, r[i].id) < posIn(ts, r[j].id)

\* C7: the ranked order is a permutation of the open tasks in which scores
\* never increase from one position to the next, and two tasks with equal
\* score keep the relative order they had in the input list.
C7_StableRanking ==
    RankedOrder(plan.ranked, tasks) /\ RankedOrder(secPlan.ranked, secTasks)

\* C7 witness: the planner ranked a list in which the sort moved a task
\* ahead of one listed before it, and in which two tasks tie, the one with
\* the larger id listed first.
C7_Witness ==
    /\ \E i, j \in DOMAIN plan.ranked :
          i < j /\ posIn(tasks, plan.ranked[i].id) > posIn(tasks, plan.ranked[j].id)
    /\ \E i, j \in DOMAIN plan.ranked :
          /\ i < j /\ plan.ranked[i].score = plan.ranked[j].score
          /\ plan.ranked[i].id > plan.ranked[j].id

\* The budget left after the first i ranked tasks have each been given
\* their slot.
RECURSIVE budgetAfter(_, _)
budgetAfter(r, i) ==
    IF i = 0 THEN 180 ELSE budgetAfter(r, i - 1) - Min(r[i].estMinutes, 90)

\* C8: the scheduled task ids are exactly the first k ranked task ids for
\* some k; the first ranked task is always admitted; every later slot was
\* added with budget left and fits the budget left before it, so nothing is
\* scheduled after a task that does not fit or after the budget has reached
\* 0; and the walk ends early only for one of these reasons or at six slots.
C8_PrefixWalk ==
    LET r == plan.ranked
        k == Len(plan.schedule)
    IN /\ k <= Len(r)
       /\ \A i \in 1..k : plan.schedule[i].id = r[i].id
       /\ r # << >> => k >= 1
       /\ \A i \in 2..k :
             /\ budgetAfter(r, i - 1) > 0
             /\ Min(r[i].estMinutes, 90) <= budgetAfter(r, i - 1)
       /\ (k >= 1 /\ k < Len(r)) =>
             \/ k = 6
             \/ budgetAfter(r, k) <= 0
             \/ Min(r[k + 1].estMinutes, 90) > budgetAfter(r, k)

\* C8 witness: the walk stopped, with budget left, at a task that does not
\* fit, and a task ranked after that one would have fitted.
C8_Witness ==
    LET r == plan.ranked
        k == Len(plan.schedule)
    IN /\ k >= 1 /\ k < 6 /\ k + 1 < Len(r)
       /\ plan.budget > 0
       /\ Min(r[k + 1].estMinutes, 90) > plan.budget
       /\ \E j \in (k + 2)..Len(r) : Min(r[j].estMinutes, 90) <= plan.budget

\* C9: every slot's minutes equal min(estimatedMinutes of its task, 90); a
\* single open task estimated at 200 minutes yields one slot of 90 minutes
\* and totalMinutes 90; totalMinutes equals the sum of the slot minutes.
C9_SlotCap ==
    /\ \A i \in DOMAIN plan.schedule :
          LET t == tasks[posIn(tasks, plan.schedule[i].id)]
          IN plan.schedule[i].minutes =
                 (IF estimateMinutes(t) < 90 THEN estimateMinutes(t) ELSE 90)
    /\ plan.totalMinutes = slotSum(plan.schedule)
    /\ (Len(plan.ranked) = 1 /\ plan.ranked[1].estMinutes = 200) =>
          /\ Len(plan.schedule) = 1
          /\ plan.schedule[1].minutes = 90
          /\ plan.totalMinutes = 90

\* C9 witness: the planner scheduled the only open task of its list, and
\* that task is estimated at 200 minutes.
C9_Witness ==
    /\ Cardinality(openIds(tasks)) = 1
    /\ \E i \in DOMAIN tasks :
          tasks[i].completed = 0 /\ estimateMinutes(tasks[i]) = 200
    /\ Len(plan.schedule) = 1

----------------------------------------------------------------------------
\* C11: when the loaded list has no open task (it is empty, or every task in
\* it is completed) the planner's plan is the fixed empty plan: the summary
\* is the one sentence "Add a task to get a plan.", prioritized, sections
\* and schedule are empty and totalMinutes is 0.
C11_EmptyPlan ==
    (\A i \in DOMAIN tasks : tasks[i].completed # 0) =>
        /\ plan.summary = << [text |-> "Add a task to get a plan.",
                              titles |-> << >>, reason |-> << >>] >>
        /\ plan.prioritized = << >>
        /\ plan.sections = << >>
        /\ plan.schedule = << >>
        /\ plan.totalMinutes = 0

\* A non-empty list whose tasks are all completed has been loaded.
C11_Witness ==
    /\ prev.some
    /\ Len(tasks) > 0
    /\ \A i \in DOMAIN tasks : tasks[i].completed # 0
    /\ plan.summary[1].text = "Add a task to get a plan."

----------------------------------------------------------------------------
\* The effort term of a difficulty, and the urgency tier a ranked task was
\* given: what is left of its score (in tenths) once the effort term and the
\* similarity boost, below one whole point here, are taken away.
effortTerm(difficulty) ==
    CASE difficulty = "hard" -> 3 [] difficulty = "medium" -> 2 [] OTHER -> 1

tierOf(t) == (t.score \div 10) - effortTerm(t.difficulty)

\* Earlier due, never less urgent, among the tasks of one ranked list.
MonotoneTiers(ranked) ==
    \A i, j \in DOMAIN ranked :
        (/\ ~ranked[i].daysUntil.isNull
         /\ ~ranked[j].daysUntil.isNull
         /\ ranked[i].daysUntil.v < ranked[j].daysUntil.v)
        => /\ tierOf(ranked[i]) >= tierOf(ranked[j])
           /\ (/\ ranked[i].title = ranked[j].title
               /\ ranked[i].difficulty = ranked[j].difficulty)
              => ranked[i].score >= ranked[j].score

\* C12: on both screens, of two tasks with day offsets d1 < d2 the one due
\* earlier has an urgency tier at least as high; two tasks that differ only
\* in the offset therefore never have the later-due one scored higher.
C12_MonotonicUrgency ==
    /\ MonotoneTiers(plan.ranked)
    /\ MonotoneTiers(secPlan.ranked)

\* Both screens ranked a task due today and one due tomorrow, and the
\* planner also holds a pair whose tiers are the two ends of the ladder.
C12_Witness ==
    /\ Len(plan.ranked) = 2
    /\ Len(secPlan.ranked) = 2
    /\ \E i, j \in DOMAIN secPlan.ranked :
          /\ ~secPlan.ranked[i].daysUntil.isNull
          /\ ~secPlan.ranked[j].daysUntil.isNull
          /\ secPlan.ranked[i].daysUntil.v = 0
          /\ secPlan.ranked[j].daysUntil.v = 1
          /\ tierOf(secPlan.ranked[i]) > tierOf(secPlan.ranked[j])
          /\ tierOf(plan.ranked[i]) > tierOf(plan.ranked[j])

\* The urgency table of the specification, by day offset.
TierTable(daysUntil) ==
    IF daysUntil.isNull THEN 1
    ELSE CASE daysUntil.v < 0 -> 9
           [] daysUntil.v = 0 -> 8
           [] daysUntil.v = 1 -> 7
           [] daysUntil.v \in 2..3 -> 6
           [] daysUntil.v \in 4..7 -> 4
           [] daysUntil.v \in 8..14 -> 3
           [] daysUntil.v > 14 -> 1

\* C13: every ranked task of the planner and of the section screen has the
\* urgency tier the table gives for its day offset (null 1, negative 9, 0 is
\* 8, 1 is 7, 2 to 3 is 6, 4 to 7 is 4, 8 to 14 is 3, above 14 is 1), so the
\* two screens give the same tier for the same offset.
C13_TierTable ==
    /\ \A i \in DOMAIN plan.ranked :
          tierOf(plan.ranked[i]) = TierTable(plan.ranked[i].daysUntil)
    /\ \A i \in DOMAIN secPlan.ranked :
          tierOf(secPlan.ranked[i]) = TierTable(secPlan.ranked[i].daysUntil)

\* Both screens ranked the same pair: one task at the end of the 2-to-3
\* tier, one past the last boundary.
C13_Witness ==
    /\ Len(plan.ranked) = 2
    /\ secTasks = tasks
    /\ Len(secPlan.ranked) = 2
    /\ \E i, j \in DOMAIN plan.ranked :
          /\ ~plan.ranked[i].daysUntil.isNull
          /\ ~plan.ranked[j].daysUntil.isNull
          /\ plan.ranked[i].daysUntil.v = 3
          /\ plan.ranked[j].daysUntil.v = 15
          /\ tierOf(plan.ranked[i]) = 6
          /\ tierOf(plan.ranked[j]) = 1
          /\ tierOf(secPlan.ranked[i]) = 6
          /\ tierOf(secPlan.ranked[j]) = 1

----------------------------------------------------------------------------
\* The lowercased title tokens of the open tasks of ts, one after another.
RECURSIVE allTokens(_, _)
allTokens(ts, i) ==
    IF i > Len(ts) THEN << >>
    ELSE (IF ts[i].completed = 0 THEN titleWords(ts[i]) ELSE << >>)
         \o allTokens(ts, i + 1)

\* The number of occurrences of word w among the tokens all.
tokenCount(all, w) == Cardinality({k \in DOMAIN all : all[k] = w})

\* What one token adds to the boost, in tenths: min(f - 1, 2) * 4 when its
\* frequency f is above 1.
tokenBoost(all, w) ==
    LET f == tokenCount(all, w)
    IN IF f > 1 THEN (IF f - 1 < 2 THEN f - 1 ELSE 2) * 4 ELSE 0

RECURSIVE boostSum(_, _, _)
boostSum(all, words, i) ==
    IF i > Len(words) THEN 0
    ELSE tokenBoost(all, words[i]) + boostSum(all, words, i + 1)

hasProject(t) == <<"p", "r", "o", "j", "e", "c", "t">> \in Range(titleWords(t))

\* C14: each ranked task of the planner scores urgency + effort + boost (in
\* tenths), the boost being the sum over the tokens of its lowercased title
\* of min(f - 1, 2) * 4 for the tokens of frequency f > 1; on the section
\* screen the score is urgency + effort alone.  When ten open tasks all
\* hold the word project, every planner score is at least 8 tenths above
\* urgency + effort.
C14_Score ==
    /\ LET all == allTokens(tasks, 1)
       IN \A i \in DOMAIN plan.ranked :
             LET t == plan.ranked[i]
             IN t.score = 10 * (TierTable(t.daysUntil) + effortTerm(t.difficulty))
                          + boostSum(all, titleWords(t), 1)
    /\ \A i \in DOMAIN secPlan.ranked :
          LET t == secPlan.ranked[i]
          IN t.score = 10 * (TierTable(t.daysUntil) + effortTerm(t.difficulty))
    /\ (/\ Len(plan.ranked) = 10
        /\ \A i \in DOMAIN plan.ranked : hasProject(plan.ranked[i]))
       => \A i \in DOMAIN plan.ranked :
             LET t == plan.ranked[i]
             IN t.score >= 10 * (TierTable(t.daysUntil) + effortTerm(t.difficulty)) + 8

\* Both screens ranked the same ten tasks that all hold the word project;
\* the planner's score of one task is above the section screen's by the
\* boost of two capped tokens, and another task scores higher still.
C14_Witness ==
    /\ Len(plan.ranked) = 10
    /\ secTasks = tasks
    /\ \A i \in DOMAIN plan.ranked : hasProject(plan.ranked[i])
    /\ \E i, j \in DOMAIN plan.ranked, k \in DOMAIN secPlan.ranked :
          /\ plan.ranked[i].id = secPlan.ranked[k].id
          /\ plan.ranked[i].score = secPlan.ranked[k].score + 16
          /\ plan.ranked[j].score > plan.ranked[i].score

----------------------------------------------------------------------------
\* The similarity boost of a ranked planner task, in tenths: its score less
\* urgency and effort.
boostOf(t) == t.score - 10 * (TierTable(t.daysUntil) + effortTerm(t.difficulty))

\* C15: a ranked planner task none of whose title tokens occurs in the title
\* of another open task has a similarity boost of 0, and no token of a
\* title adds more than 8 tenths to the boost.
C15_SharedOnly ==
    \A i \in DOMAIN plan.ranked :
        LET t == plan.ranked[i]
            words == titleWords(t)
            others == UNION {Range(titleWords(plan.ranked[j])) :
                                j \in DOMAIN plan.ranked \ {i}}
        IN /\ (Range(words) \cap others = {}) => boostOf(t) = 0
           /\ boostOf(t) <= 8 * Len(words)

----------------------------------------------------------------------------
\* Example scenario 1: the open tasks are one hard task due yesterday and
\* one easy task with no due date.
IsScenario1(ranked) ==
    /\ Len(ranked) = 2
    /\ \E i, j \in DOMAIN ranked :
          /\ ranked[i].difficulty = "hard"
          /\ ranked[i].daysUntil = Some(-1)
          /\ ranked[j].difficulty = "easy"
          /\ ranked[j].due_date = NoDate

\* C16: in example scenario 1 the hard overdue task scores 9 + 3 and the
\* easy undated one 1 + 1 (each plus its boost), the ranked order is hard
\* then easy, critical holds both in that order and quick wins is empty.
\* With at most three open tasks critical is the whole ranked list, the
\* other three buckets are empty, and no section other than "Critical path"
\* is listed (and that one is listed as soon as there is an open task).
C16_Scenario1 ==
    /\ IsScenario1(plan.ranked) =>
          LET all == allTokens(tasks, 1)
              hard == plan.ranked[1]
              easy == plan.ranked[2]
          IN /\ hard.difficulty = "hard"
             /\ hard.score = 10 * (9 + 3) + boostSum(all, titleWords(hard), 1)
             /\ easy.difficulty = "easy"
             /\ easy.score = 10 * (1 + 1) + boostSum(all, titleWords(easy), 1)
             /\ plan.critical = << hard, easy >>
             /\ plan.quickWins = << >>
    /\ Len(plan.ranked) <= 3 =>
          /\ plan.critical = plan.ranked
          /\ plan.deepWork = << >>
          /\ plan.quickWins = << >>
          /\ plan.catchUp = << >>
          /\ \A k \in DOMAIN plan.sections :
                plan.sections[k].title = "Critical path"
          /\ Len(plan.ranked) > 0 =>
                plan.sections = << [title |-> "Critical path",
                                    hint |-> "Highest weighted tasks",
                                    tasks |-> plan.ranked] >>

\* The planner loaded scenario 1 with the easy task first in the list, and
\* ranked the hard one first.
C16_Witness ==
    /\ IsScenario1(plan.ranked)
    /\ tasks[1].difficulty = "easy"
    /\ plan.ranked[1].difficulty = "hard"
    /\ Len(plan.critical) = 2
    /\ Len(plan.sections) = 1

----------------------------------------------------------------------------
\* The hard task of example scenario 1.
hardOf(ranked) == ranked[CHOOSE i \in DOMAIN ranked : ranked[i].difficulty = "hard"]

\* C17 as stated: in example scenario 1 the catch-up bucket is the overdue
\* hard task alone.
C17_CatchUpOverdue ==
    IsScenario1(plan.ranked) => plan.catchUp = << hardOf(plan.ranked) >>

\* C17, amended: in example scenario 1 the catch-up bucket is empty: the
\* overdue hard task passes the catch-up filter, but the critical pass has
\* already claimed it.
C17_CatchUpEmpty ==
    IsScenario1(plan.ranked) =>
        /\ isOverdue(hardOf(plan.ranked))
        /\ hardOf(plan.ranked) \in Range(plan.critical)
        /\ hardOf(plan.ranked).id \in plan.used
        /\ plan.catchUp = << >>

\* The planner loaded scenario 1 with the hard task first in the list: it is
\* overdue, in critical, and catch-up is empty.
C17_Witness ==
    /\ IsScenario1(plan.ranked)
    /\ tasks[1].difficulty = "hard"
    /\ plan.ranked[1].daysUntil = Some(-1)
    /\ plan.critical[1] = plan.ranked[1]
    /\ plan.catchUp = << >>

----------------------------------------------------------------------------
\* The keyword bonuses and the base minutes of the specification.
KeywordBonuses == {
    [k |-> <<"e", "s", "s", "a", "y">>, bonus |-> 30],
    [k |-> <<"p", "r", "o", "j", "e", "c", "t">>, bonus |-> 40],
    [k |-> <<"r", "e", "s", "e", "a", "r", "c", "h">>, bonus |-> 25],
    [k |-> <<"s", "t", "u", "d", "y">>, bonus |-> 15],
    [k |-> <<"q", "u", "i", "z">>, bonus |-> 10],
    [k |-> <<"e", "x", "a", "m">>, bonus |-> 40],
    [k |-> <<"l", "a", "b">>, bonus |-> 25],
    [k |-> <<"r", "e", "p", "o", "r", "t">>, bonus |-> 25] }

BaseMinutes(difficulty) ==
    CASE difficulty = "hard" -> 90 [] difficulty = "medium" -> 45 [] OTHER -> 20

\* Characters a and b are the same letter in either case, or the same
\* character.
sameLetter(a, b) ==
    \/ a = b
    \/ \E n \in DOMAIN UpperChars : {a, b} = {UpperChars[n], LowerChars[n]}

\* Keyword k occurs in title as a substring, case ignored.
occursIn(title, k) ==
    \E i \in 1..(Len(title) - Len(k) + 1) :
        \A j \in 1..Len(k) : sameLetter(title[i + j - 1], k[j])

RECURSIVE sumBonus(_)
sumBonus(S) ==
    IF S = {} THEN 0
    ELSE LET x == CHOOSE y \in S : TRUE
         IN x.bonus + sumBonus(S \ {x})

\* C18: the estimate of every ranked planner task is the base of its
\* difficulty (90, 45, 20) plus the bonus of each keyword that occurs in its
\* title as a substring, case ignored, each keyword counted once; it is
\* never below the base.
C18_EstimateMinutes ==
    \A i \in DOMAIN plan.ranked :
        LET t == plan.ranked[i]
            matched == {kw \in KeywordBonuses : occursIn(t.title, kw.k)}
        IN /\ t.estMinutes = BaseMinutes(t.difficulty) + sumBonus(matched)
           /\ t.estMinutes >= BaseMinutes(t.difficulty)

\* The planner ranked a hard task whose title holds all eight keywords, the
\* first capitalised: 90 + 210 minutes.
C18_Witness ==
    /\ Len(plan.ranked) = 1
    /\ plan.ranked[1].difficulty = "hard"
    /\ plan.ranked[1].title[1] = "E"
    /\ plan.ranked[1].estMinutes = 300

----------------------------------------------------------------------------
\* The stored due date is missing (null or the empty string) or is no date.
undated(task) == task.due_date.kind \in {"null", "empty", "bad"}

\* C19: every open task whose due date is missing or unparseable is ranked
\* by the planner with a null day offset, urgency tier 1 and "No due date"
\* as the first clause of its reason; it is never in catch-up, and when it
\* is ranked first it gets the first schedule slot like any other task.
C19_NoDueDate ==
    LET all == allTokens(tasks, 1)
    IN \A k \in DOMAIN tasks :
          (tasks[k].completed = 0 /\ undated(tasks[k])) =>
              \E i \in DOMAIN plan.ranked :
                  LET t == plan.ranked[i]
                  IN /\ t.id = tasks[k].id
                     /\ t.daysUntil = Null
                     /\ t.score = 10 * (1 + effortTerm(t.difficulty))
                                  + boostSum(all, titleWords(t), 1)
                     /\ t.reason[1].text = "No due date"
                     /\ t.id \notin idsOf(plan.catchUp)
                     /\ i = 1 => (Len(plan.schedule) > 0 /\ plan.schedule[1].id = t.id)

\* The planner loaded a task with no due date and one with an unparseable
\* one; both are ranked and both have a schedule slot, after a dated task.
C19_Witness ==
    /\ \E k \in DOMAIN tasks : tasks[k].due_date = NoDate
    /\ \E k \in DOMAIN tasks : tasks[k].due_date = BadDate
    /\ ~undated(plan.ranked[1])
    /\ \A k \in DOMAIN tasks :
          undated(tasks[k]) => tasks[k].id \in idsOf(plan.schedule)

----------------------------------------------------------------------------
\* C20: prioritized is the first min(5, n) tasks of the n ranked ones, in
\* ranked order; critical is the first min(3, n) entries of prioritized, and
\* the first schedule slot belongs to the first entry of prioritized.
C20_Prioritized ==
    LET n == Len(plan.ranked)
    IN /\ Len(plan.prioritized) = (IF n < 5 THEN n ELSE 5)
       /\ \A i \in DOMAIN plan.prioritized : plan.prioritized[i] = plan.ranked[i]
       /\ Len(plan.critical) = (IF n < 3 THEN n ELSE 3)
       /\ \A i \in DOMAIN plan.critical : plan.critical[i] = plan.prioritized[i]
       /\ n > 0 => /\ Len(plan.schedule) > 0
                   /\ plan.schedule[1].id = plan.prioritized[1].id
                   /\ plan.schedule[1].title = plan.prioritized[1].title

\* The planner ranked more than five tasks: prioritized stops at five,
\* critical at three, and the task ranked sixth is in neither.
C20_Witness ==
    /\ Len(plan.ranked) > 5
    /\ Len(plan.prioritized) = 5
    /\ Len(plan.critical) = 3
    /\ plan.ranked[6].id \notin idsOf(plan.prioritized)
    /\ plan.schedule[1].id = plan.ranked[1].id

----------------------------------------------------------------------------
----------------------------------------------------------------------------
\* C22: a load whose getTasks rejected returns through the catch block: the
\* error message is set, the list on display becomes empty and the plan the
\* empty plan, and the refreshing flag is cleared if that load had set it; a
\* load that returns with rows clears the error.  So while the error is on
\* display the plan is never one of an earlier snapshot.
C22_LoadFailure ==
    /\ [](~error.isNull => (tasks = << >> /\ plan = agentPlan(<< >>, today)))
    /\ [][\A n \in DOMAIN loads :
             /\ (loads[n].pc = "rejected" /\ loads'[n].pc # "rejected") =>
                   /\ loads'[n].pc = "done"
                   /\ error' = LoadError
                   /\ tasks' = << >>
                   /\ plan'.summary[1].text = "Add a task to get a plan."
                   /\ loads[n].spinner => ~refreshing'
             /\ (loads[n].pc = "read" /\ loads'[n].pc # "read") =>
                   /\ loads'[n].pc = "done"
                   /\ error' = NoError
                   /\ loads[n].spinner => ~refreshing']_vars

\* A load with the spinner has failed after a list with open tasks was on
\* display: the error is shown, the list is empty, the spinner is off.
C22_Witness ==
    /\ error = LoadError
    /\ tasks = << >>
    /\ prev.some /\ Len(prev.plan.ranked) > 0
    /\ ~refreshing
    /\ \E n \in DOMAIN loads :
          loads[n].threw /\ loads[n].spinner /\ loads[n].pc = "done"


\* C23: at every step of the schedule walk the budget left is at least 0,
\* the scheduled minutes total at most 180 for every schedule, one-slot
\* schedules included, and the first ranked task's slot never exceeds the
\* full budget, so the pass for an oversized first task is never needed.
C23_BudgetNeverNegative ==
    LET r == plan.ranked
        k == Len(plan.schedule)
    IN /\ \A i \in 0..k : budgetAfter(r, i) >= 0
       /\ plan.budget = budgetAfter(r, k)
       /\ plan.totalMinutes <= 180
       /\ slotSum(plan.schedule) = plan.totalMinutes
       /\ r # << >> => plan.schedule[1].minutes <= 180

\* C23 witness: a one-slot schedule whose only task is estimated above the
\* whole budget and was given a slot of 90.
C23_Witness ==
    /\ Len(plan.ranked) = 1 /\ Len(plan.schedule) = 1
    /\ plan.ranked[1].estMinutes > 180
    /\ plan.schedule[1].minutes = 90
    /\ plan.budget = 90


\* C24: the schedule has at least min(2, number of open tasks) slots: one
\* open task gives a slot, and with two or more open tasks the second
\* ranked task is scheduled as well, whatever the estimates are.
C24_ScheduleFloor ==
    LET open == Len(openTasks(tasks))
    IN /\ Len(plan.ranked) = open
       /\ Len(plan.schedule) >= Min(2, open)
       /\ open >= 1 => plan.schedule[1].id = plan.ranked[1].id
       /\ open >= 2 => plan.schedule[2].id = plan.ranked[2].id

\* C24 witness: three or more open tasks, the first two both estimated
\* above the slot cap, and the schedule made of exactly these two.
C24_Witness ==
    /\ Len(plan.ranked) >= 3
    /\ plan.ranked[1].estMinutes > 90 /\ plan.ranked[2].estMinutes > 90
    /\ Len(plan.schedule) = 2
    /\ plan.schedule[2].id = plan.ranked[2].id
    /\ plan.budget = 0


----------------------------------------------------------------------------
\* The shape of the buckets b taken from the ranked order r: any bucket
\* after critical holds a task only if critical is full, catch-up holds a
\* task only if deep-focus or quick-wins is full as well, hence not under
\* six ranked tasks, and a catch-up task ranks below every critical task.
BucketShape(r, b) ==
    /\ (b.deepWork # << >> \/ b.quickWins # << >> \/ b.catchUp # << >>) =>
          Len(b.critical) = 3
    /\ b.catchUp # << >> =>
          /\ Len(b.critical) = 3
          /\ Len(b.deepWork) = 2 \/ Len(b.quickWins) = 3
    /\ Len(r) < 6 => b.catchUp = << >>
    /\ \A i \in DOMAIN b.catchUp : \A j \in DOMAIN b.critical :
          posIn(r, b.catchUp[i].id) > posIn(r, b.critical[j].id)

\* C25: on both screens, a non-empty deep-focus, quick-wins or catch-up
\* bucket implies critical holds exactly 3 tasks; a non-empty catch-up
\* implies deep-focus holds 2 or quick-wins holds 3; so catch-up is empty
\* under 6 open tasks, and an overdue task is in catch-up only when it ranks
\* below every task of critical.
C25_BucketShape ==
    /\ BucketShape(plan.ranked, plan)
    /\ BucketShape(secPlan.ranked, secPlan)
    /\ Len(plan.ranked) = Len(openTasks(tasks))
    /\ Len(secPlan.ranked) = Len(openTasks(secTasks))

\* C25 witness: exactly six open tasks, all of them overdue; critical holds
\* three, deep-focus is full with two, quick-wins is short of its limit, and
\* catch-up holds the sixth, which is not easy and ranks last.
C25_Witness ==
    /\ Len(plan.ranked) = 6
    /\ Len(plan.critical) = 3 /\ Len(plan.deepWork) = 2
    /\ Len(plan.quickWins) < 3 /\ Len(plan.catchUp) = 1
    /\ plan.catchUp[1] = plan.ranked[6]
    /\ plan.catchUp[1].difficulty # "easy"
    /\ secPlan.catchUp # << >>


----------------------------------------------------------------------------
\* The four passes with quick-wins run before deep-focus: critical first and
\* catch-up last as in bucketsOf.
bucketsOfQuickFirst(ranked) ==
    LET R == Range(ranked)
        c == take(ranked, CriticalLimit, [t \in R |-> anyTask(t)], newUsed)
        q == take(ranked, QuickLimit, [t \in R |-> isEasy(t)], c.used)
        d == take(ranked, DeepLimit, [t \in R |-> notEasy(t)], q.used)
        u == take(ranked, CatchUpLimit, [t \in R |-> isOverdue(t)], d.used)
    IN [critical |-> c.picked, deepWork |-> d.picked,
        quickWins |-> q.picked, catchUp |-> u.picked, used |-> u.used]

\* The buckets a and b hold the same tasks in the same order.
SameBuckets(a, b) ==
    /\ a.critical = b.critical /\ a.deepWork = b.deepWork
    /\ a.quickWins = b.quickWins /\ a.catchUp = b.catchUp

\* C26: running the quick-wins pass before the deep-focus pass, critical
\* first and catch-up last, gives the same four buckets and the same used
\* set as the order of the code, on both screens.
C26_QuickBeforeDeep ==
    /\ SameBuckets(bucketsOfQuickFirst(plan.ranked), plan)
    /\ bucketsOfQuickFirst(plan.ranked).used = plan.used
    /\ SameBuckets(bucketsOfQuickFirst(secPlan.ranked), secPlan)

\* C26 witness: deep-focus and quick-wins both hold tasks, an easy task
\* ranks above a deep-focus task outside critical, and moving the catch-up
\* pass or the critical pass does change the buckets.
C26_Witness ==
    /\ plan.deepWork # << >> /\ plan.quickWins # << >>
    /\ posIn(plan.ranked, plan.quickWins[1].id) <
          posIn(plan.ranked, plan.deepWork[1].id)
    /\ ~SameBuckets(bucketsOfCatchUpEarly(plan.ranked), plan)
    /\ ~SameBuckets(bucketsOfCriticalLast(plan.ranked), plan)


----------------------------------------------------------------------------
\* The ids of a list of tasks, in its order.
idSeq(seq) == [i \in DOMAIN seq |-> seq[i].id]

\* What the sections of a screen list: the ids of its four buckets, in
\* order.
sectionLists(p) ==
    [critical |-> idSeq(p.critical), deep |-> idSeq(p.deepWork),
     quick |-> idSeq(p.quickWins), catch |-> idSeq(p.catchUp)]

\* C27 as stated: when both screens hold the same task list on the same
\* date, each section of the section screen lists exactly the tasks, in the
\* same order, that the planner shows in that section.
C27_SameSections ==
    tasks = secTasks => sectionLists(secPlan) = sectionLists(plan)

\* C27, amended: when both screens hold the same task list on the same
\* date they rank the same open tasks, and if every open task has the same
\* similarity boost on the planner then the section screen ranks them in the
\* planner's order and each of its sections lists exactly the planner's
\* tasks in the planner's order.
C27_SameSectionsEqualBoost ==
    tasks = secTasks =>
        /\ idsOf(secPlan.ranked) = idsOf(plan.ranked)
        /\ (\A i, j \in DOMAIN plan.ranked :
                boostOf(plan.ranked[i]) = boostOf(plan.ranked[j])) =>
              /\ idSeq(secPlan.ranked) = idSeq(plan.ranked)
              /\ sectionLists(secPlan) = sectionLists(plan)

\* C27 witness: both screens have loaded the same five open tasks, none of
\* which shares a word with another, and they show the same non-empty
\* critical and deep-focus sections.
C27_Witness ==
    /\ tasks = secTasks /\ prev.some
    /\ Len(plan.ranked) = 5
    /\ \A i \in DOMAIN plan.ranked : boostOf(plan.ranked[i]) = 0
    /\ Len(secPlan.critical) = 3 /\ secPlan.deepWork # << >>
    /\ sectionLists(secPlan) = sectionLists(plan)


----------------------------------------------------------------------------
\* C28: once no planner load is in flight, the displayed task list is the
\* snapshot read by the most recently started load (the empty list if that
\* load failed), and so it shows as open no task whose row in the store is
\* completed.
C28_LatestSnapshotWins ==
    (loads # << >> /\ \A n \in DOMAIN loads : loads[n].pc = "done") =>
        LET last == loads[Len(loads)]
        IN /\ tasks = IF last.threw THEN << >> ELSE last.data
           /\ \A k \in DOMAIN tasks : \A i \in DOMAIN rows :
                 (rows[i].id = tasks[k].id /\ rows[i].completed = 1) =>
                     tasks[k].completed = 1


----------------------------------------------------------------------------
\* The task operations of lib/database.
TaskOps == {"getTasks", "getTask", "addTask", "updateTask", "deleteTask",
            "setTaskCompleted"}

\* C29: a task operation that runs after signOutUser, before any sign-in or
\* sign-up has succeeded, reads and changes no user's task rows; and a task
\* operation that finds a session reads and changes only rows whose user_id
\* is the session's user.
C29_SessionIsolation ==
    lastOp.name \in TaskOps =>
        /\ signedOut => lastOp.owners = {}
        /\ lastOp.session # 0 => lastOp.owners \subseteq {lastOp.session}

\* With a session row, a task operation acts for the session's user and
\* reads or changes that user's rows only.
OwnRowsOnly ==
    (lastOp.name \in TaskOps /\ lastOp.session # 0) =>
        (lastOp.user = lastOp.session /\ lastOp.owners \subseteq {lastOp.session})


----------------------------------------------------------------------------
\* C30: for the task list and the date of the planner, the number on the
\* "Due soon" chip equals the length of the filter screen's "next3" list,
\* and the "Overdue" and "Open" chips equal the lengths of its "overdue"
\* and "open" lists.
C30_ChipsMatchFilters ==
    LET s == stats(tasks, today)
    IN /\ s.dueSoon = Len(filtered(tasks, "next3", today))
       /\ s.overdue = Len(filtered(tasks, "overdue", today))
       /\ s.open = Len(filtered(tasks, "open", today))

\* The "Overdue" and "Open" chips alone equal the lengths of their lists.
OverdueAndOpenMatch ==
    LET s == stats(tasks, today)
    IN /\ s.overdue = Len(filtered(tasks, "overdue", today))
       /\ s.open = Len(filtered(tasks, "open", today))

====
